---- MODULE Spec2Model ----
(***************************************************************************)
(* Verification model of the CHoCH alert backend:                          *)
(*   - utils/timeframe_scheduler.py  (TimeframeScheduler)                  *)
(*   - data/aligned_candle_aggregator.py (period arithmetic)               *)
(*   - main.py (ChochAlertSystem.monitor_loop)                             *)
(*   - trading/signal_bus.py (SignalBus)                                   *)
(*   - detectors/choch_detector.py (ChochDetector)                         *)
(* Instants are whole seconds counted from 2025-10-20 00:00:00, the        *)
(* midnight that is also the 50m reference of the aggregator.  The clock   *)
(* of the scheduler (datetime.now()) and the candle timestamps of the      *)
(* aggregator are read on this one axis.                                   *)
(***************************************************************************)
EXTENDS Integers, Sequences, FiniteSets, TLC

VARIABLES
    \* ---- pure scheduler / aggregator queries
    q_tf, q_now, q_prev, q_next, q_period, q_done,
    \* ---- scheduler object and monitor loop
    now, last_scanned_close, running, pc, scannable_timeframes,
    sym_i, tf_i, remaining, iter_start, failed_tfs, scanned, rescanned,
    \* ---- scheduler driven through its public methods
    api_tf, api_at, api_last, api_ready,
    \* ---- signal bus
    subscribers, signal_count, bus_pc, dispatched, task, outcome,
    observed, completed, success_count, error_count,
    \* ---- CHoCH detector of one (symbol, timeframe) key
    market, closed, df, state, result, det_op, fired, signals,
    \* ---- AlignedCandleAggregator.aggregate
    agg_tf, df_5m, df_aggregated, price_pattern, df_complete, agg_error,
    agg_done,
    \* ---- the program that scans and the alerts it sent itself
    program, telegram_alerts, broadcasts,
    \* ---- history: the (timeframe, close) pairs whose scan raised, and those
    \* ---- for which the scan of some symbol went through
    failed_closes,
    ok_closes,
    \* ---- the number of older candles the window df no longer holds
    df_offset,
    \* ---- the exchange and one fetch_historical call
    fetch_tf, limit, exchange_now, exchange_lag, listed_at, fetch_fails,
    df_returned, fetch_error, fetch_done,
    \* ---- one get_all_usdt_pairs call
    max_pairs, tickers, tickers_fail, final_pairs, pairs_done,
    \* ---- PositionManager of one (symbol, timeframe) key and the exchange
    enable_trading, positions, position_counter, position_status,
    position_orders, position_signal, exchange_orders, exchange_size,
    \* ---- the position and the order a pass of update_positions awaits
    \* ---- exchange.get_order for
    upd_pos, upd_purpose,
    \* ---- the configuration and the start-up of the scanner
    cfg, boot_pc, config_errors,
    \* ---- BacktestEngine: the trade and the orders of a backtest run, the
    \* ---- trades it recorded, and the TP and SL fills so far
    current_trade, pending_orders, completed_trades, exit_fills

fnVars    == <<q_tf, q_now, q_prev, q_next, q_period, q_done>>
clockVars == <<now, last_scanned_close>>
loopVars  == <<running, pc, scannable_timeframes, sym_i, tf_i, remaining,
               iter_start, failed_tfs, scanned, rescanned>>
apiVars   == <<api_tf, api_at, api_last, api_ready>>
busVars   == <<subscribers, signal_count, bus_pc, dispatched, task, outcome,
               observed, completed, success_count, error_count>>
detVars   == <<market, closed, df, state, result, det_op, fired, signals>>
aggVars   == <<agg_tf, df_5m, df_aggregated, price_pattern, df_complete, agg_error,
               agg_done>>
scanVars  == <<program, telegram_alerts, broadcasts>>
histVars  == <<failed_closes, ok_closes, df_offset>>
fetchVars == <<fetch_tf, limit, exchange_now, exchange_lag, listed_at, fetch_fails,
               df_returned, fetch_error, fetch_done>>
pairVars  == <<max_pairs, tickers, tickers_fail, final_pairs, pairs_done>>
tradeVars == <<enable_trading, positions, position_counter, position_status,
               position_orders, position_signal, exchange_orders, exchange_size,
               upd_pos, upd_purpose>>
bootVars  == <<cfg, boot_pc, config_errors>>
backtestVars == <<current_trade, pending_orders, completed_trades, exit_fills>>
portVars  == <<fetchVars, pairVars, tradeVars, bootVars, backtestVars>>
vars      == <<fnVars, clockVars, loopVars, apiVars, busVars, detVars,
               aggVars, scanVars, histVars, portVars>>

None == 0 - 1

Min2(a, b) == IF a <= b THEN a ELSE b
Max2(a, b) == IF a >= b THEN a ELSE b

(***************************************************************************)
(* datetime arithmetic                                                     *)
(***************************************************************************)
DaySeconds == 24 * 3600

Hour(t)   == (t % DaySeconds) \div 3600
Minute(t) == (t % 3600) \div 60

\* datetime.replace(hour=h, minute=m, second=0) on the date of t
ReplaceHMS(t, h, m) == (t \div DaySeconds) * DaySeconds + h * 3600 + m * 60

(***************************************************************************)
(* TimeframeScheduler                                                      *)
(***************************************************************************)
TF_TO_MINUTES ==
    [tf \in {"1m", "3m", "5m", "10m", "15m", "20m", "30m", "40m", "50m",
             "1h", "2h", "4h", "6h", "8h", "12h", "1d"} |->
        CASE tf = "1m"  -> 1
          [] tf = "3m"  -> 3
          [] tf = "5m"  -> 5
          [] tf = "10m" -> 10
          [] tf = "15m" -> 15
          [] tf = "20m" -> 20
          [] tf = "30m" -> 30
          [] tf = "40m" -> 40
          [] tf = "50m" -> 50
          [] tf = "1h"  -> 60
          [] tf = "2h"  -> 120
          [] tf = "4h"  -> 240
          [] tf = "6h"  -> 360
          [] tf = "8h"  -> 480
          [] tf = "12h" -> 720
          [] tf = "1d"  -> 1440]

\* self.TF_TO_MINUTES.get(timeframe, 60)
TfMinutes(tf) == IF tf \in DOMAIN TF_TO_MINUTES THEN TF_TO_MINUTES[tf] ELSE 60

get_next_candle_close_time(tf, t) ==
    LET minutes == TfMinutes(tf) IN
    IF minutes < 60 THEN
        LET next_minute == ((Minute(t) \div minutes) + 1) * minutes
            next_dt ==
                IF next_minute >= 60
                THEN IF Hour(t) + 1 >= 24
                     THEN ReplaceHMS(t + DaySeconds, 0, 0)
                     ELSE ReplaceHMS(t, Hour(t) + 1, 0)
                ELSE ReplaceHMS(t, Hour(t), next_minute)
        IN  IF next_dt <= t THEN next_dt + minutes * 60 ELSE next_dt
    ELSE IF minutes = 60 THEN
        LET next_dt == ReplaceHMS(t, (Hour(t) + 1) % 24, 0)
        IN  IF next_dt <= t THEN next_dt + 3600 ELSE next_dt
    ELSE IF minutes = 1440 THEN
        ReplaceHMS(t, 0, 0) + DaySeconds
    ELSE
        LET hours         == minutes \div 60
            current_block == (Hour(t) \div hours) * hours
            nb            == current_block + hours
            day_increment == IF nb >= 24 THEN 1 ELSE 0
            next_block    == IF nb >= 24 THEN nb - 24 ELSE nb
            next_dt       == ReplaceHMS(t, next_block, 0) + day_increment * DaySeconds
        IN  IF next_dt <= t THEN next_dt + hours * 3600 ELSE next_dt

get_prev_candle_close_time(tf, t) ==
    LET minutes == TfMinutes(tf) IN
    IF minutes < 60 THEN
        LET prev_close == ReplaceHMS(t, Hour(t), (Minute(t) \div minutes) * minutes)
        IN  IF prev_close >= t THEN prev_close - minutes * 60 ELSE prev_close
    ELSE IF minutes = 60 THEN
        LET prev_close == ReplaceHMS(t, Hour(t), 0)
        IN  IF prev_close >= t THEN prev_close - 3600 ELSE prev_close
    ELSE IF minutes = 1440 THEN
        LET prev_close == ReplaceHMS(t, 0, 0)
        IN  IF prev_close >= t THEN prev_close - DaySeconds ELSE prev_close
    ELSE
        LET hours      == minutes \div 60
            prev_close == ReplaceHMS(t, (Hour(t) \div hours) * hours, 0)
        IN  IF prev_close >= t THEN prev_close - hours * 3600 ELSE prev_close

BufferSeconds == 30

\* a should_scan that skips only a close older than the marked one
should_scan_rescans_marked(tf, t, last_scanned) ==
    LET prev_close == get_prev_candle_close_time(tf, t) IN
    IF last_scanned # None /\ last_scanned > prev_close
    THEN FALSE
    ELSE t >= prev_close + BufferSeconds

\* a should_scan that does not wait for the buffer
should_scan_without_buffer(tf, t, last_scanned) ==
    LET prev_close == get_prev_candle_close_time(tf, t) IN
    IF last_scanned # None /\ last_scanned >= prev_close
    THEN FALSE
    ELSE t >= prev_close

\* should_scan for a timeframe the scheduler was built with
should_scan(tf, t, last_scanned) ==
    LET prev_close == get_prev_candle_close_time(tf, t) IN
    IF last_scanned # None /\ last_scanned >= prev_close
    THEN FALSE
    ELSE t >= prev_close + BufferSeconds

(***************************************************************************)
(* AlignedCandleAggregator: period arithmetic                              *)
(***************************************************************************)
\* datetime(2025, 10, d, h, m) as seconds from 2025-10-20 00:00
Oct2025(d, h, m) == ((d - 20) * 1440 + h * 60 + m) * 60

TIMEFRAME_REFERENCES ==
    [tf \in {"10m", "20m", "25m", "40m", "50m"} |->
        CASE tf = "10m" -> Oct2025(24, 17, 10)
          [] tf = "20m" -> Oct2025(24, 17, 20)
          [] tf = "25m" -> Oct2025(24, 17, 5)
          [] tf = "40m" -> Oct2025(24, 16, 40)
          [] tf = "50m" -> Oct2025(20, 0, 0)]

\* int(target_timeframe[:-1]) for the "<n>m" names of the reference table
TargetMinutes ==
    [tf \in DOMAIN TIMEFRAME_REFERENCES |->
        CASE tf = "10m" -> 10
          [] tf = "20m" -> 20
          [] tf = "25m" -> 25
          [] tf = "40m" -> 40
          [] tf = "50m" -> 50]

\* a period grid anchored at the midnight of each day instead of the
\* reference time
get_candle_period_start_from_midnight(timestamp, interval_minutes, reference_time) ==
    LET midnight == timestamp - (timestamp % DaySeconds)
    IN  midnight + ((timestamp - midnight) \div (60 * interval_minutes))
                       * interval_minutes * 60

\* \div rounds towards minus infinity, as Python's // does
get_candle_period_start(timestamp, interval_minutes, reference_time) ==
    LET diff_seconds == timestamp - reference_time
        period_index == diff_seconds \div (60 * interval_minutes)
    IN  reference_time + period_index * interval_minutes * 60

\* base_minutes of aggregate: the candles it is given are 5m candles
base_minutes == 5

\* df.groupby('period_start'): the periods of the candles of df, each with
\* the open times of the candles assigned to it
GroupByPeriod(df5, target_minutes, reference_time) ==
    LET period_of == [ts \in df5 |->
                        get_candle_period_start(ts, target_minutes, reference_time)]
    IN  { [period_start |-> p, candles |-> {ts \in df5 : period_of[ts] = p}] :
            p \in {period_of[ts] : ts \in df5} }

\* an aggregation that returns every period, complete or not
aggregate_keeps_partial(df5, target_timeframe) ==
    GroupByPeriod(df5, TargetMinutes[target_timeframe],
                  TIMEFRAME_REFERENCES[target_timeframe])

\* AlignedCandleAggregator.aggregate(df, target_timeframe): the emitted
\* candles, each indexed by its period start; only the periods that hold
\* target_minutes // base_minutes candles are kept
aggregate(df5, target_timeframe) ==
    LET target_minutes == TargetMinutes[target_timeframe]
        expected_candles_per_period == target_minutes \div base_minutes
    IN  { g \in GroupByPeriod(df5, target_minutes,
                              TIMEFRAME_REFERENCES[target_timeframe]) :
            Cardinality(g.candles) = expected_candles_per_period }

\* the 5m candle the exchange delivers for the open time ts: prices that
\* move with the candle's position on the 5m grid, each candle with its
\* high and low around its open and close as exchange klines have them
candle_5m(ts, pattern) ==
    LET k == ((ts \div (60 * base_minutes)) * pattern) % 7
        o == 100 + k
        c == 100 + ((3 * k + pattern) % 7)
    IN  [timestamp |-> ts, open |-> o, close |-> c,
         high |-> Max2(o, c) + (k % 2),
         low |-> Min2(o, c) - ((k + 1) % 2),
         volume |-> 1 + (k % 3)]

RECURSIVE SumVolume(_, _)
SumVolume(candles, pattern) ==
    IF candles = {} THEN 0
    ELSE LET ts == CHOOSE x \in candles : TRUE
         IN  candle_5m(ts, pattern).volume + SumVolume(candles \ {ts}, pattern)

\* a row that takes its high and low from the first candle of the group
agg_dict_first_candle(g, pattern) ==
    LET first == candle_5m(CHOOSE x \in g.candles : \A y \in g.candles : x <= y, pattern)
        last == candle_5m(CHOOSE x \in g.candles : \A y \in g.candles : y <= x, pattern)
    IN  [period_start |-> g.period_start, open |-> first.open, high |-> first.high,
         low |-> first.low, close |-> last.close,
         volume |-> SumVolume(g.candles, pattern)]

\* grouped.agg(agg_dict): open first, high max, low min, close last,
\* volume sum over the candles of one period
agg_dict(g, pattern) ==
    LET first == candle_5m(CHOOSE x \in g.candles : \A y \in g.candles : x <= y, pattern)
        last == candle_5m(CHOOSE x \in g.candles : \A y \in g.candles : y <= x, pattern)
    IN  [period_start |-> g.period_start, open |-> first.open,
         high |-> CHOOSE h \in {candle_5m(ts, pattern).high : ts \in g.candles} :
                     \A ts \in g.candles : candle_5m(ts, pattern).high <= h,
         low |-> CHOOSE l \in {candle_5m(ts, pattern).low : ts \in g.candles} :
                     \A ts \in g.candles : l <= candle_5m(ts, pattern).low,
         close |-> last.close,
         volume |-> SumVolume(g.candles, pattern)]

\* the timeframe names that end with 'm', with int(target_timeframe[:-1])
MinuteNames ==
    [tf \in {"1m", "3m", "5m", "7m", "10m", "15m", "20m", "25m", "30m", "40m",
             "45m", "50m"} |->
        CASE tf = "1m" -> 1   [] tf = "3m" -> 3   [] tf = "5m" -> 5
          [] tf = "7m" -> 7   [] tf = "10m" -> 10 [] tf = "15m" -> 15
          [] tf = "20m" -> 20 [] tf = "25m" -> 25 [] tf = "30m" -> 30
          [] tf = "40m" -> 40 [] tf = "45m" -> 45 [] tf = "50m" -> 50]

\* one call of AlignedCandleAggregator.aggregate from its first statement:
\* the ValueError it raised, if any, the complete periods and the frame of
\* OHLCV rows it returned
aggregate_call(df5, target_timeframe, pattern) ==
    IF df5 = {}
    THEN [error |-> "none", periods |-> {}, rows |-> {}]
    ELSE IF target_timeframe \notin DOMAIN MinuteNames
    THEN [error |-> "Invalid timeframe format", periods |-> {}, rows |-> {}]
    ELSE IF MinuteNames[target_timeframe] % base_minutes # 0
    THEN [error |-> "target_minutes must be divisible by base_minutes",
          periods |-> {}, rows |-> {}]
    ELSE IF target_timeframe \notin DOMAIN TIMEFRAME_REFERENCES
    THEN [error |-> "No reference time configured", periods |-> {}, rows |-> {}]
    ELSE LET df_complete_periods == aggregate(df5, target_timeframe)
         IN  [error |-> "none", periods |-> df_complete_periods,
              rows |-> {agg_dict(g, pattern) : g \in df_complete_periods}]

(***************************************************************************)
(* Specification SpecFn: the close-time functions applied to sampled       *)
(* (timeframe, instant) pairs                                              *)
(***************************************************************************)
MaxSlot == 300

SampleOffsets == {0, 1, 29, 30, 150, 299}
SampleInstants == {slot * 300 + off : slot \in 0..MaxSlot, off \in SampleOffsets}

\* the keys of TF_TO_MINUTES plus the two configured names it lacks
AllTimeframes == DOMAIN TF_TO_MINUTES \cup {"25m", "45m"}

\* idle values of the variables a specification does not use
IdleFn ==
    /\ q_tf = "none" /\ q_now = None /\ q_prev = None /\ q_next = None
    /\ q_period = None /\ q_done = FALSE
IdleClock == now = None /\ last_scanned_close = <<>>
IdleLoop ==
    /\ running = FALSE /\ pc = "off" /\ scannable_timeframes = {}
    /\ sym_i = 0 /\ tf_i = 0 /\ remaining = 0 /\ iter_start = None
    /\ failed_tfs = {} /\ scanned = {} /\ rescanned = FALSE
\* the callbacks subscribed by run_trading_bot: TradingBot.on_signal and the
\* Telegram handler
SubscriberIds == {"on_signal", "telegram_alert_handler"}

IdleBus ==
    /\ subscribers = <<>> /\ signal_count = 0 /\ bus_pc = "off" /\ dispatched = <<>>
    /\ task = [s \in SubscriberIds |-> "none"]
    /\ outcome = [s \in SubscriberIds |-> "none"]
    /\ observed = [s \in SubscriberIds |-> <<>>]
    /\ completed = [s \in SubscriberIds |-> <<>>]
    /\ success_count = 0 /\ error_count = 0
IdleApi == api_tf = "none" /\ api_at = None /\ api_last = None /\ api_ready = FALSE
IdleDet ==
    /\ market = <<>> /\ closed = 0 /\ df = <<>> /\ state = <<>> /\ result = <<>>
    /\ det_op = "off" /\ fired = 0 /\ signals = 0
IdleAgg ==
    /\ agg_tf = "none" /\ df_5m = {} /\ df_aggregated = {}
    /\ price_pattern = 0 /\ df_complete = {} /\ agg_error = "none"
    /\ agg_done = FALSE
IdleScan == program = "none" /\ telegram_alerts = 0 /\ broadcasts = 0
IdleHist == failed_closes = {} /\ ok_closes = {} /\ df_offset = 0
IdleFetch ==
    /\ fetch_tf = "none" /\ limit = 0 /\ exchange_now = None /\ exchange_lag = 0
    /\ listed_at = None /\ fetch_fails = FALSE
    /\ df_returned = <<>> /\ fetch_error = "none" /\ fetch_done = FALSE
IdlePairs ==
    /\ max_pairs = 0 /\ tickers = {} /\ tickers_fail = FALSE
    /\ final_pairs = <<>> /\ pairs_done = FALSE
IdleTrade ==
    /\ enable_trading = FALSE /\ positions = None /\ position_counter = 0
    /\ position_status = <<>> /\ position_orders = <<>> /\ position_signal = <<>>
    /\ exchange_orders = <<>> /\ exchange_size = <<>>
    /\ upd_pos = None /\ upd_purpose = "none"
IdleBoot == cfg = <<>> /\ boot_pc = "off" /\ config_errors = {}
IdleBacktest ==
    /\ current_trade = None /\ pending_orders = <<>>
    /\ completed_trades = <<>> /\ exit_fills = {}
IdlePort == IdleFetch /\ IdlePairs /\ IdleTrade /\ IdleBoot /\ IdleBacktest

InitFn ==
    /\ q_tf \in AllTimeframes
    /\ q_now \in SampleInstants
    /\ q_prev = None /\ q_next = None /\ q_period = None /\ q_done = FALSE
    /\ IdleClock /\ IdleLoop /\ IdleApi /\ IdleBus /\ IdleDet
    /\ IdleAgg /\ IdleScan /\ IdleHist /\ IdlePort

FnQuery ==
    /\ q_done = FALSE
    /\ q_prev' = get_prev_candle_close_time(q_tf, q_now)
    /\ q_next' = get_next_candle_close_time(q_tf, q_now)
    /\ q_period' = IF q_tf \in DOMAIN TIMEFRAME_REFERENCES
                   THEN get_candle_period_start(q_now, TargetMinutes[q_tf],
                                                TIMEFRAME_REFERENCES[q_tf])
                   ELSE None
    /\ q_done' = TRUE
    /\ UNCHANGED <<q_tf, q_now, clockVars, loopVars, apiVars, busVars, detVars, aggVars, scanVars, histVars, portVars>>

NextFn == FnQuery

SpecFn == InitFn /\ [][NextFn]_vars

\* interval in minutes that a timeframe name stands for: the scheduler's table,
\* and 5m times the multiplier of the adapter for the names the table lacks
NominalMinutes(tf) ==
    IF tf \in DOMAIN TF_TO_MINUTES THEN TF_TO_MINUTES[tf]
    ELSE IF tf = "25m" THEN 5 * 5 ELSE 9 * 5

\* smallest instant of the grid {R + k * m minutes} strictly greater than t
NextOnGrid(t, m, R) == R + ((t - R) \div (60 * m) + 1) * 60 * m

\* the timeframes of the default TIMEFRAMES setting
DefaultTimeframes == {"10m", "20m", "40m", "25m", "45m", "15m", "30m", "1h"}

\* C7: for every configured timeframe whose interval divides the 1440-minute
\* day, the next close is the smallest interval-aligned instant strictly after
\* now; for 25m it is the smallest instant after now of the form
\* R_25m + k * 25 min.
C7_SchedulerAlignment ==
    (q_done /\ q_tf \in DefaultTimeframes) =>
        /\ (1440 % NominalMinutes(q_tf) = 0 =>
                q_next = NextOnGrid(q_now, NominalMinutes(q_tf), 0))
        /\ (q_tf = "25m" =>
                q_next = NextOnGrid(q_now, 25, TIMEFRAME_REFERENCES["25m"]))

\* C8: for every synthesised timeframe with a reference instant R the
\* scheduler's previous close equals R + floor((now - R) / m) * m, the start
\* of the aggregator period that contains now.
C8_SchedulerMatchesAggregator ==
    (q_done /\ q_tf \in DOMAIN TIMEFRAME_REFERENCES) => q_prev = q_period

\* C31 (previous and next close): for every timeframe and every instant
\* now, prev_close(now) is the greatest candle-close instant that is <= now
\* (so prev_close(now) = now when now lies exactly on a close boundary), and
\* next_close(now) = prev_close(now) + interval.  Stated for the timeframes
\* of the scheduler's table whose interval divides the day, whose closes are
\* the multiples of the interval.
C31_PrevNextClose ==
    (q_done /\ q_tf \in DOMAIN TF_TO_MINUTES /\ 1440 % TF_TO_MINUTES[q_tf] = 0) =>
        LET interval == 60 * TF_TO_MINUTES[q_tf]
        IN  /\ q_prev = (q_now \div interval) * interval
            /\ q_next = q_prev + interval

(***************************************************************************)
(* Specification SpecAgg: aggregate applied to runs of 5m candles that     *)
(* start on 2025-10-24, the day of the 25m reference, with or without a    *)
(* missing candle                                                          *)
(***************************************************************************)
MaxShift == 11

\* 5m candles of one day
DayCandles == 288

\* lengths of the runs: empty, shorter than a period, a few periods, and
\* more than three days
RunLengths == {0, 1, 9, 23, 3 * DayCandles + 7}

\* position in the run of the candle the exchange did not deliver
MissingAt == {None, 2, 13}

\* the open times of a run of n candles from first, the one at gap left out
BaseRun(first, n, gap) ==
    {first + 60 * base_minutes * i : i \in (0..(n - 1)) \ {gap}}

InitAgg ==
    /\ agg_tf \in DOMAIN TIMEFRAME_REFERENCES
    /\ \E shift \in 0..MaxShift, n \in RunLengths, gap \in MissingAt :
         df_5m = BaseRun(Oct2025(24, 0, 0) + 60 * base_minutes * shift, n, gap)
    /\ df_aggregated = {}
    /\ price_pattern = 1 /\ df_complete = {} /\ agg_error = "none"
    /\ agg_done = FALSE
    /\ IdleFn /\ IdleClock /\ IdleLoop /\ IdleApi /\ IdleBus /\ IdleDet
    /\ IdleScan /\ IdleHist /\ IdlePort

\* TimeframeAdapter.fetch_historical hands the base candles to aggregate
Aggregate ==
    /\ \E out \in {aggregate_call(df_5m, agg_tf, price_pattern)} :
         /\ df_aggregated' = out.periods
         /\ df_complete' = out.rows
         /\ agg_error' = out.error
    /\ agg_done' = TRUE
    /\ UNCHANGED <<agg_tf, df_5m, price_pattern, fnVars, clockVars, loopVars, apiVars, busVars,
                   detVars, scanVars, histVars, portVars>>

NextAgg == Aggregate

SpecAgg == InitAgg /\ [][NextAgg]_vars

\* C19 (aggregator completeness): every emitted candle is built from exactly
\* m/5 base candles, all of them inside the one period the candle stands
\* for, and they are all the base candles of that period.
C19_Completeness ==
    \A c \in df_aggregated :
        LET m == TargetMinutes[agg_tf]
            in_period == {ts \in df_5m : c.period_start <= ts
                                         /\ ts < c.period_start + 60 * m}
        IN  /\ Cardinality(c.candles) = m \div 5
            /\ c.candles = in_period

\* candles were emitted from a run with a missing candle, whose period was
\* left out
C19_Witness ==
    /\ df_aggregated # {}
    /\ \E g \in aggregate_keeps_partial(df_5m, agg_tf) :
         /\ g \notin df_aggregated
         /\ \E c, d \in df_aggregated :
              c.period_start < g.period_start /\ g.period_start < d.period_start

\* C20 (aggregator alignment): the close time of every emitted candle lies a
\* whole number of intervals from the reference time of its timeframe.
C20_Alignment ==
    \A c \in df_aggregated :
        LET m == TargetMinutes[agg_tf]
            close_time == c.period_start + 60 * m
        IN  (close_time - TIMEFRAME_REFERENCES[agg_tf]) % (60 * m) = 0

\* 25m candles were emitted over more than three days, before and after
\* the reference time
C20_Witness ==
    /\ agg_tf = "25m"
    /\ Cardinality(df_5m) >= 3 * DayCandles
    /\ \E c, d \in df_aggregated :
         /\ c.period_start < TIMEFRAME_REFERENCES["25m"]
         /\ d.period_start > TIMEFRAME_REFERENCES["25m"] + 2 * DaySeconds

(***************************************************************************)
(* Specification SpecCall: aggregate called with any timeframe name on     *)
(* short runs of 5m candles with prices                                    *)
(***************************************************************************)
MaxPattern == 4

\* names with a reference, a multiple of 5 without one, names that are not
\* multiples of 5, and a name that does not end with 'm'
CallTimeframes == {"10m", "25m", "50m", "45m", "15m", "7m", "3m", "1h"}

CallLengths == {0, 1, 12, 31}
CallShifts == {0, 3, 7}

InitCall ==
    /\ agg_tf \in CallTimeframes
    /\ \E shift \in CallShifts, n \in CallLengths, gap \in MissingAt :
         df_5m = BaseRun(Oct2025(24, 0, 0) + 60 * base_minutes * shift, n, gap)
    /\ price_pattern \in 1..MaxPattern
    /\ df_aggregated = {} /\ df_complete = {} /\ agg_error = "none"
    /\ agg_done = FALSE
    /\ IdleFn /\ IdleClock /\ IdleLoop /\ IdleApi /\ IdleBus /\ IdleDet
    /\ IdleScan /\ IdleHist /\ IdlePort

NextCall == Aggregate

SpecCall == InitCall /\ [][NextCall]_vars

\* C21 (OHLC validity): every candle emitted by the aggregator satisfies
\* low <= open <= high and low <= close <= high.
C21_OhlcValidity ==
    \A c \in df_complete :
        /\ c.low <= c.open /\ c.open <= c.high
        /\ c.low <= c.close /\ c.close <= c.high

\* a 25m candle was emitted whose close lies above the high of the first
\* of its five base candles and whose open lies above the low of the last
C21_Witness ==
    /\ agg_done /\ agg_tf = "25m"
    /\ \E c \in df_complete :
         /\ c.close > candle_5m(c.period_start, price_pattern).high
         /\ c.high >= c.close

\* the interval a timeframe name stands for is no multiple of 5 minutes,
\* or the name has no reference time
InvalidTarget(tf) ==
    \/ tf \notin DOMAIN TIMEFRAME_REFERENCES
    \/ (tf \in DOMAIN MinuteNames /\ MinuteNames[tf] % 5 # 0)

\* C22 (invalid timeframe): the aggregator fails with an invalid-timeframe
\* error, and emits no candles, whenever the target interval is not a
\* multiple of 5 minutes or the target timeframe has no configured
\* reference, for any base sequence it is given.
C22_InvalidTimeframeFails ==
    (agg_done /\ InvalidTarget(agg_tf)) =>
        (agg_error # "none" /\ df_complete = {})

(***************************************************************************)
(* BinanceFetcher.fetch_historical and TimeframeAdapter.fetch_historical   *)
(* against an exchange that serves its klines, the forming one last        *)
(***************************************************************************)
\* TimeframeAdapter.AGGREGATION_MAP: the multiplier of the 5m base
AGGREGATION_MAP ==
    [tf \in {"10m", "20m", "25m", "40m", "45m", "50m"} |->
        CASE tf = "10m" -> 2 [] tf = "20m" -> 4 [] tf = "25m" -> 5
          [] tf = "40m" -> 8 [] tf = "45m" -> 9 [] tf = "50m" -> 10]

\* the last n elements of a sequence: df.tail(n)
tail(sq, n) == IF Len(sq) <= n THEN sq ELSE SubSeq(sq, Len(sq) - n + 1, Len(sq))

\* the elements of a set of instants, oldest first
RECURSIVE Ascending(_)
Ascending(S) ==
    IF S = {} THEN <<>>
    ELSE LET newest == CHOOSE x \in S : \A y \in S : y <= x
         IN  Append(Ascending(S \ {newest}), newest)

\* exchange.fetch_ohlcv(symbol, timeframe, limit=n) at instant t: the open
\* times of the newest n klines of the native timeframe, oldest first.  The
\* exchange holds a kline for every interval since the symbol was listed;
\* the newest opened at or before t - lag and is still forming unless the
\* exchange has not yet opened the kline of the interval t lies in.
fetch_ohlcv(timeframe, n, t, lag, listed) ==
    LET interval == 60 * TF_TO_MINUTES[timeframe]
        first_k == (listed + interval - 1) \div interval
        last_k == (t - lag) \div interval
    IN  tail([i \in 1..Max2(0, last_k - first_k + 1) |-> (first_k + i - 1) * interval], n)

\* a fetch that returns the klines as the exchange served them
fetch_historical_keeps_forming(timeframe, lim, t, lag, listed, fails) ==
    IF fails THEN <<>>
    ELSE tail(fetch_ohlcv(timeframe, lim + 1, t, lag, listed), lim)

\* BinanceFetcher.fetch_historical(symbol, timeframe, limit): the open times
\* of the candles of the frame it returns; an exception of the exchange
\* call gives the empty frame
fetch_historical(timeframe, lim, t, lag, listed, fails) ==
    IF fails THEN <<>>
    ELSE LET fetch_limit == lim + 1
             ohlcv == fetch_ohlcv(timeframe, fetch_limit, t, lag, listed)
             closed_only == IF Len(ohlcv) > 0 THEN SubSeq(ohlcv, 1, Len(ohlcv) - 1)
                            ELSE ohlcv
         IN  tail(closed_only, lim)

\* TimeframeAdapter.fetch_historical(symbol, timeframe, limit): the frame it
\* returns, or the ValueError of aggregate it lets through
TimeframeAdapter_fetch_historical(timeframe, lim, t, lag, listed, fails, pattern) ==
    IF timeframe \in DOMAIN AGGREGATION_MAP
    THEN LET multiplier == AGGREGATION_MAP[timeframe]
             base_limit == lim * multiplier
             df_base == fetch_historical("5m", base_limit, t, lag, listed, fails)
         IN  IF Len(df_base) = 0
             THEN [error |-> "none", df |-> <<>>]
             ELSE LET out == aggregate_call({df_base[i] : i \in DOMAIN df_base},
                                            timeframe, pattern)
                  IN  IF out.error # "none"
                      THEN [error |-> out.error, df |-> <<>>]
                      ELSE [error |-> "none",
                            df |-> tail(Ascending({r.period_start : r \in out.rows}), lim)]
    ELSE [error |-> "none",
          df |-> fetch_historical(timeframe, lim, t, lag, listed, fails)]

(***************************************************************************)
(* Specification SpecFetch: one fetch_historical call of the adapter, for  *)
(* native and synthesised timeframes, at instants around the candle        *)
(* boundaries of 2025-10-24 after 17:05                                    *)
(***************************************************************************)
MaxLimit == 3

\* seconds the exchange may take to open the kline of a new interval
LagSeconds == 2

FetchTimeframes == {"5m", "15m", "1h", "10m", "25m", "45m", "50m"}

FetchOffsets == {0, 1, 150, 299, 300, 1499, 1500, 3301}

\* the symbol was listed long ago, one hour ago, or seven minutes ago
ListedBefore == {10 * DaySeconds, 3600, 420}

InitFetch ==
    /\ fetch_tf \in FetchTimeframes
    /\ limit \in 1..MaxLimit
    /\ exchange_now \in {Oct2025(24, 17, 5) + off : off \in FetchOffsets}
    /\ exchange_lag \in {0, LagSeconds}
    /\ listed_at \in {Oct2025(24, 17, 5) - ago : ago \in ListedBefore}
    /\ fetch_fails \in BOOLEAN
    /\ df_returned = <<>> /\ fetch_error = "none" /\ fetch_done = FALSE
    /\ agg_tf = "none" /\ df_5m = {} /\ df_aggregated = {}
    /\ price_pattern = 1 /\ df_complete = {} /\ agg_error = "none"
    /\ agg_done = FALSE
    /\ IdleFn /\ IdleClock /\ IdleLoop /\ IdleApi /\ IdleBus /\ IdleDet
    /\ IdleScan /\ IdleHist /\ IdlePairs /\ IdleTrade /\ IdleBoot /\ IdleBacktest

FetchHistorical ==
    /\ fetch_done = FALSE
    /\ \E out \in {TimeframeAdapter_fetch_historical(fetch_tf, limit, exchange_now,
                         exchange_lag, listed_at, fetch_fails, price_pattern)} :
         /\ df_returned' = out.df
         /\ fetch_error' = out.error
    /\ fetch_done' = TRUE
    /\ UNCHANGED <<fetch_tf, limit, exchange_now, exchange_lag, listed_at, fetch_fails>>
    /\ UNCHANGED <<fnVars, clockVars, loopVars, apiVars, busVars, detVars, aggVars,
                   scanVars, histVars, pairVars, tradeVars, bootVars, backtestVars>>

NextFetch == FetchHistorical

SpecFetch == InitFetch /\ [][NextFetch]_vars

\* C23 (closed candles only): fetch_historical(symbol, timeframe, limit)
\* returns at most limit candles, ordered oldest first, all of them closed:
\* the currently forming candle is never included, for native and for
\* synthesised timeframes alike.
C23_ClosedCandlesOnly ==
    fetch_done =>
        /\ Len(df_returned) <= limit
        /\ \A i \in 1..(Len(df_returned) - 1) : df_returned[i] < df_returned[i + 1]
        /\ \A i \in DOMAIN df_returned :
              df_returned[i] + 60 * NominalMinutes(fetch_tf) <= exchange_now

\* limit 25m candles were returned while a 5m candle was forming, the
\* newest of them closed at the open of that forming candle
C23_Witness ==
    /\ fetch_done /\ fetch_tf = "25m" /\ limit >= 2
    /\ Len(df_returned) = limit
    /\ exchange_now % (60 * base_minutes) # 0
    /\ df_returned[limit] + 60 * 25 = exchange_now - (exchange_now % (60 * base_minutes))

(***************************************************************************)
(* Specification SpecPairs: one get_all_usdt_pairs call                    *)
(***************************************************************************)
MaxPairs == 5

FIXED_COINS == <<"BTCUSDT", "ETHUSDT", "BNBUSDT">>

\* the futures symbols whose tickers may pass the quote and volume tests
TickerSymbols == {"BTCUSDT", "SOLUSDT", "XRPUSDT", "DOGEUSDT", "ADAUSDT"}

\* sq[:k] of Python, k negative included
SliceTo(sq, k) ==
    IF k >= 0 THEN SubSeq(sq, 1, Min2(k, Len(sq)))
    ELSE SubSeq(sq, 1, Max2(0, Len(sq) + k))

\* the orders random.shuffle can leave the elements of S in
Shuffles(S) ==
    {sq \in [1..Cardinality(S) -> S] : \A x \in S : \E i \in DOMAIN sq : sq[i] = x}

InitPairs ==
    /\ max_pairs \in 0..MaxPairs
    /\ tickers \in SUBSET TickerSymbols
    /\ tickers_fail \in BOOLEAN
    /\ final_pairs = <<>> /\ pairs_done = FALSE
    /\ IdleFn /\ IdleClock /\ IdleLoop /\ IdleApi /\ IdleBus /\ IdleDet
    /\ IdleAgg /\ IdleScan /\ IdleHist /\ IdleFetch /\ IdleTrade /\ IdleBoot
    /\ IdleBacktest

\* BinanceFetcher.get_all_usdt_pairs(min_volume_24h, quote, max_pairs)
GetAllUsdtPairs ==
    /\ pairs_done = FALSE
    /\ IF tickers_fail
       THEN final_pairs' = FIXED_COINS
       ELSE LET fixed_count == Len(FIXED_COINS)
                fixed == {FIXED_COINS[i] : i \in DOMAIN FIXED_COINS}
            IN  \E others \in Shuffles(tickers \ fixed) :
                  final_pairs' =
                      IF max_pairs = 0
                      THEN FIXED_COINS \o others
                      ELSE FIXED_COINS \o SliceTo(others, max_pairs - fixed_count)
    /\ pairs_done' = TRUE
    /\ UNCHANGED <<max_pairs, tickers, tickers_fail>>
    /\ UNCHANGED <<fnVars, clockVars, loopVars, apiVars, busVars, detVars, aggVars,
                   scanVars, histVars, fetchVars, tradeVars, bootVars, backtestVars>>

NextPairs == GetAllUsdtPairs

SpecPairs == InitPairs /\ [][NextPairs]_vars

\* C30 (pair limit): for any max_pairs > 0, get_all_usdt_pairs returns at
\* most max_pairs symbols; max_pairs = 0 means unlimited.
C30_PairLimit ==
    pairs_done =>
        /\ (max_pairs > 0 => Len(final_pairs) <= max_pairs)
        /\ ((max_pairs = 0 /\ ~tickers_fail) =>
                \A x \in tickers : \E i \in DOMAIN final_pairs : final_pairs[i] = x)

(***************************************************************************)
(* PositionManager: the positions of one (symbol, timeframe) key, their    *)
(* four orders, and the exchange that holds the orders it accepted         *)
(***************************************************************************)
MaxPositions == 2

\* POS_0, POS_1, ...: position_counter at the creation of the position
PositionIds == 0..(MaxPositions - 1)

\* the purposes of the orders of a position, in the order they are placed
Purposes == <<"ENTRY1", "ENTRY2", "TP", "SL">>
PurposeSet == {Purposes[i] : i \in DOMAIN Purposes}
PurposeIndex(p) == CHOOSE i \in DOMAIN Purposes : Purposes[i] = p

\* a Long, a Short, and a Long whose TP lies below its entries
Signals ==
    { [direction |-> "Long", entry1_price |-> 100, entry2_price |-> 98,
       tp_price |-> 104, sl_price |-> 96],
      [direction |-> "Short", entry1_price |-> 100, entry2_price |-> 102,
       tp_price |-> 96, sl_price |-> 104],
      [direction |-> "Long", entry1_price |-> 100, entry2_price |-> 98,
       tp_price |-> 97, sl_price |-> 96] }

\* the mark price of the symbol when the signal is handled
MarkPrices == {95, 105}

NoPosition == [direction |-> "none", tp_price |-> 0, mark |-> 0]
NoOrders == [p \in PurposeSet |-> [status |-> "none", order_id |-> "None"]]

\* TradingBot._validate_signal
validate_signal(signal) ==
    /\ signal.direction \in {"Long", "Short"}
    /\ signal.entry1_price > 0 /\ signal.entry2_price > 0
    /\ signal.tp_price > 0 /\ signal.sl_price > 0
    /\ IF signal.direction = "Long"
       THEN signal.tp_price > signal.entry1_price /\ signal.sl_price < signal.entry2_price
       ELSE signal.tp_price < signal.entry1_price /\ signal.sl_price > signal.entry2_price

\* create_position: the four ManagedOrder records when the exchange rejects
\* the order placed at position reject_at (0: it rejects none).  An order
\* is sent while enable_trading and success hold; otherwise it is recorded
\* as simulated.
placed_orders(trading, reject_at) ==
    [p \in PurposeSet |->
        LET sent == trading /\ (reject_at = 0 \/ PurposeIndex(p) <= reject_at)
        IN  IF sent /\ PurposeIndex(p) = reject_at
            THEN [status |-> "failed", order_id |-> "None"]
            ELSE IF sent
            THEN [status |-> "pending", order_id |-> "EXCHANGE"]
            ELSE [status |-> "pending", order_id |-> "SIMULATED"]]

\* the orders the exchange holds after the create_order calls
accepted_orders(orders) ==
    [p \in PurposeSet |->
        IF orders[p].order_id = "EXCHANGE" THEN "open"
        ELSE IF orders[p].status = "failed" THEN "rejected" ELSE "none"]

\* a failed creation that leaves the orders it placed on the exchange
rollback_orders_none(orders, xorders, trading) == xorders

\* create_position after a failed order: exchange.cancel_order for every
\* pending order with a real order id; the exchange cancels an order that
\* is open
rollback_orders(orders, xorders, trading) ==
    [p \in PurposeSet |->
        IF /\ trading /\ orders[p].order_id = "EXCHANGE"
           /\ orders[p].status = "pending" /\ xorders[p] = "open"
        THEN "cancelled" ELSE xorders[p]]

\* a close that cancels the pending entry orders only
close_position_cancels_entries_only(orders, xorders, trading) ==
    [p \in PurposeSet |->
        IF /\ trading /\ orders[p].status = "pending"
           /\ orders[p].order_id = "EXCHANGE" /\ xorders[p] = "open"
           /\ p \in {"ENTRY1", "ENTRY2"}
        THEN "cancelled" ELSE xorders[p]]

\* close_position, the exchange side of its loop: exchange.cancel_order for
\* every pending order with a real order id; the exchange cancels an order
\* that is open
close_position_cancels(orders, xorders, trading) ==
    [p \in PurposeSet |->
        IF /\ trading /\ orders[p].status = "pending"
           /\ orders[p].order_id = "EXCHANGE" /\ xorders[p] = "open"
        THEN "cancelled" ELSE xorders[p]]

\* close_position, the record side of its loop: every pending order with
\* an order id is marked cancelled
close_position_orders(orders) ==
    [p \in PurposeSet |->
        IF orders[p].status = "pending" /\ orders[p].order_id # "None"
        THEN [orders[p] EXCEPT !.status = "cancelled"] ELSE orders[p]]

\* _update_position: what one pass over the orders of a position gives,
\* from the order records, the status and the orders at the exchange
\* (get_order reports a filled order as 'closed')
update_position(status, orders, xorders) ==
    LET filled(p) == orders[p].status = "pending" /\ xorders[p] = "filled"
        status1 == IF filled("ENTRY1") THEN "ENTRY1_FILLED" ELSE status
        status2 == IF filled("ENTRY2")
                   THEN IF status1 = "ENTRY1_FILLED" THEN "BOTH_FILLED"
                        ELSE "ENTRY2_FILLED"
                   ELSE status1
        entries == [p \in PurposeSet |->
                      IF p \in {"ENTRY1", "ENTRY2"} /\ filled(p)
                      THEN [orders[p] EXCEPT !.status = "filled"] ELSE orders[p]]
        exit == IF filled("TP") THEN "TP" ELSE IF filled("SL") THEN "SL" ELSE "none"
    IN  [status |-> status2, exit |-> exit,
         orders |-> IF exit = "none" THEN entries
                    ELSE [entries EXCEPT ![exit].status = "filled"]]

(***************************************************************************)
(* Specification SpecTrade: signals for one key reach TradingBot.on_signal *)
(* while the exchange fills orders and the monitoring loop updates the     *)
(* position                                                                *)
(***************************************************************************)
InitTrade ==
    /\ enable_trading \in BOOLEAN
    /\ positions = None /\ position_counter = 0
    /\ position_status = [id \in PositionIds |-> "none"]
    /\ position_orders = [id \in PositionIds |-> NoOrders]
    /\ position_signal = [id \in PositionIds |-> NoPosition]
    /\ exchange_orders = [id \in PositionIds |-> [p \in PurposeSet |-> "none"]]
    /\ exchange_size = [side \in {"Long", "Short"} |-> 0]
    /\ upd_pos = None /\ upd_purpose = "none"
    /\ IdleFn /\ IdleClock /\ IdleLoop /\ IdleApi /\ IdleBus /\ IdleDet
    /\ IdleAgg /\ IdleScan /\ IdleHist /\ IdleFetch /\ IdlePairs /\ IdleBoot
    /\ IdleBacktest

\* TradingBot.on_signal: _validate_signal, then
\* PositionManager.create_position_from_signal.  The manager holds no
\* reference to a position it closed or failed to create; the state keeps
\* the record and the orders of such a position until the next position is
\* created, and those of the position that this creation closes until the
\* one after.
OnSignal ==
    /\ position_counter < MaxPositions
    /\ \E signal \in Signals, mark \in MarkPrices, reject_at \in 0..Len(Purposes) :
         /\ validate_signal(signal)
         /\ (reject_at # 0 => enable_trading)
         /\ LET id == position_counter
                old == positions
                orders == placed_orders(enable_trading, reject_at)
                success == \A p \in PurposeSet : orders[p].status # "failed"
                xplaced == accepted_orders(orders)
            IN  /\ position_counter' = position_counter + 1
                /\ position_signal' =
                        [i \in PositionIds |->
                            IF i = id
                            THEN [direction |-> signal.direction,
                                  tp_price |-> signal.tp_price, mark |-> mark]
                            ELSE IF i = old THEN position_signal[i] ELSE NoPosition]
                /\ position_status' =
                        [i \in PositionIds |->
                            IF i = id THEN "PENDING"
                            ELSE IF i = old THEN "CLOSED" ELSE "none"]
                /\ position_orders' =
                        [i \in PositionIds |->
                            IF i = id THEN orders
                            ELSE IF i = old THEN close_position_orders(position_orders[i])
                            ELSE NoOrders]
                /\ exchange_orders' =
                        [i \in PositionIds |->
                            IF i = id
                            THEN IF success THEN xplaced
                                 ELSE rollback_orders(orders, xplaced, enable_trading)
                            ELSE IF i = old
                            THEN close_position_cancels(position_orders[i],
                                                        exchange_orders[i], enable_trading)
                            ELSE [p \in PurposeSet |-> "none"]]
                /\ positions' = IF success THEN id ELSE None
    /\ UNCHANGED <<enable_trading, exchange_size, upd_pos, upd_purpose>>
    /\ UNCHANGED <<fnVars, clockVars, loopVars, apiVars, busVars, detVars, aggVars,
                   scanVars, histVars, fetchVars, pairVars, bootVars, backtestVars>>

\* the exchange fills an open entry order
ExchangeFillEntry ==
    /\ \E id \in PositionIds, p \in {"ENTRY1", "ENTRY2"} :
         /\ exchange_orders[id][p] = "open"
         /\ exchange_orders' = [exchange_orders EXCEPT ![id][p] = "filled"]
         /\ exchange_size' = [exchange_size EXCEPT ![position_signal[id].direction] = @ + 1]
    /\ UNCHANGED <<enable_trading, positions, position_counter, position_status,
                   position_orders, position_signal, upd_pos, upd_purpose>>
    /\ UNCHANGED <<fnVars, clockVars, loopVars, apiVars, busVars, detVars, aggVars,
                   scanVars, histVars, fetchVars, pairVars, bootVars, backtestVars>>

\* the exchange triggers an open TP or SL order (closePosition): the whole
\* size held on that position side is closed
ExchangeFillExit ==
    /\ \E id \in PositionIds, p \in {"TP", "SL"} :
         /\ exchange_orders[id][p] = "open"
         /\ exchange_size[position_signal[id].direction] > 0
         /\ exchange_orders' = [exchange_orders EXCEPT ![id][p] = "filled"]
         /\ exchange_size' = [exchange_size EXCEPT ![position_signal[id].direction] = 0]
    /\ UNCHANGED <<enable_trading, positions, position_counter, position_status,
                   position_orders, position_signal, upd_pos, upd_purpose>>
    /\ UNCHANGED <<fnVars, clockVars, loopVars, apiVars, busVars, detVars, aggVars,
                   scanVars, histVars, fetchVars, pairVars, bootVars, backtestVars>>

\* a pass whose close leaves the closed position in self.positions
UpdatePositions_keeps_closed ==
    /\ positions # None /\ enable_trading /\ upd_pos = None
    /\ \E id \in {positions} :
       \E upd \in {update_position(position_status[id], position_orders[id],
                                   exchange_orders[id])} :
         IF upd.exit = "none"
         THEN /\ position_status' = [position_status EXCEPT ![id] = upd.status]
              /\ position_orders' = [position_orders EXCEPT ![id] = upd.orders]
              /\ UNCHANGED <<positions, exchange_orders>>
         ELSE /\ position_status' = [position_status EXCEPT ![id] = "CLOSED"]
              /\ position_orders' =
                     [position_orders EXCEPT ![id] = close_position_orders(upd.orders)]
              /\ exchange_orders' =
                     [exchange_orders EXCEPT ![id] =
                         close_position_cancels(upd.orders, exchange_orders[id],
                                                enable_trading)]
              /\ positions' = positions
    /\ UNCHANGED <<enable_trading, position_counter, position_signal, exchange_size,
                   upd_pos, upd_purpose>>
    /\ UNCHANGED <<fnVars, clockVars, loopVars, apiVars, busVars, detVars, aggVars,
                   scanVars, histVars, fetchVars, pairVars, bootVars, backtestVars>>

\* PositionManager.update_positions, called by the monitoring loop: a pass
\* during which no other task runs
UpdatePositions ==
    /\ positions # None /\ enable_trading /\ upd_pos = None
    /\ \E id \in {positions} :
       \E upd \in {update_position(position_status[id], position_orders[id],
                                   exchange_orders[id])} :
         IF upd.exit = "none"
         THEN /\ position_status' = [position_status EXCEPT ![id] = upd.status]
              /\ position_orders' = [position_orders EXCEPT ![id] = upd.orders]
              /\ UNCHANGED <<positions, exchange_orders>>
         ELSE /\ position_status' = [position_status EXCEPT ![id] = "CLOSED"]
              /\ position_orders' =
                     [position_orders EXCEPT ![id] = close_position_orders(upd.orders)]
              /\ exchange_orders' =
                     [exchange_orders EXCEPT ![id] =
                         close_position_cancels(upd.orders, exchange_orders[id],
                                                enable_trading)]
              /\ positions' = None
    /\ UNCHANGED <<enable_trading, position_counter, position_signal, exchange_size,
                   upd_pos, upd_purpose>>
    /\ UNCHANGED <<fnVars, clockVars, loopVars, apiVars, busVars, detVars, aggVars,
                   scanVars, histVars, fetchVars, pairVars, bootVars, backtestVars>>

\* the orders at the exchange as the entry checks of a pass see them
EntryView(xorders) ==
    [p \in PurposeSet |->
        IF p \in {"TP", "SL"} /\ xorders[p] = "filled" THEN "open" ELSE xorders[p]]

\* a pass of update_positions, run as a task of its own by
\* run_monitoring_loop, up to the await of exchange.get_order for the TP or
\* the SL order of the position it took from self.positions: the entry
\* checks are done, the SL check is reached when the TP check did not close
UpdateAwaitExit ==
    /\ positions # None /\ enable_trading /\ upd_pos = None
    /\ \E id \in {positions}, p \in {"TP", "SL"} :
       \E upd \in {update_position(position_status[id], position_orders[id],
                                   EntryView(exchange_orders[id]))} :
         /\ upd.orders[p].status = "pending"
         /\ (p = "SL" => ~(/\ position_orders[id]["TP"].status = "pending"
                           /\ exchange_orders[id]["TP"] = "filled"))
         /\ position_status' = [position_status EXCEPT ![id] = upd.status]
         /\ position_orders' = [position_orders EXCEPT ![id] = upd.orders]
         /\ upd_pos' = id /\ upd_purpose' = p
    /\ UNCHANGED <<enable_trading, positions, position_counter, position_signal,
                   exchange_orders, exchange_size>>
    /\ UNCHANGED <<fnVars, clockVars, loopVars, apiVars, busVars, detVars, aggVars,
                   scanVars, histVars, fetchVars, pairVars, bootVars, backtestVars>>

\* get_order returns to the suspended pass: on 'closed' the order of the
\* position the pass holds is marked filled and close_position is called with
\* the key, which closes the position self.positions holds under that key now
UpdateResumeExit ==
    /\ upd_pos # None
    /\ LET id == upd_pos
           marked == [position_orders EXCEPT ![id][upd_purpose].status = "filled"]
       IN  IF exchange_orders[id][upd_purpose] # "filled"
           THEN UNCHANGED <<positions, position_status, position_orders, exchange_orders>>
           ELSE IF positions = None
           THEN /\ position_orders' = marked
                /\ UNCHANGED <<positions, position_status, exchange_orders>>
           ELSE /\ position_orders' =
                       [marked EXCEPT ![positions] = close_position_orders(marked[positions])]
                /\ exchange_orders' =
                       [exchange_orders EXCEPT ![positions] =
                           close_position_cancels(marked[positions],
                                                  exchange_orders[positions], enable_trading)]
                /\ position_status' = [position_status EXCEPT ![positions] = "CLOSED"]
                /\ positions' = None
    /\ upd_pos' = None /\ upd_purpose' = "none"
    /\ UNCHANGED <<enable_trading, position_counter, position_signal, exchange_size>>
    /\ UNCHANGED <<fnVars, clockVars, loopVars, apiVars, busVars, detVars, aggVars,
                   scanVars, histVars, fetchVars, pairVars, bootVars, backtestVars>>

NextTrade ==
    \/ OnSignal \/ ExchangeFillEntry \/ ExchangeFillExit \/ UpdatePositions
    \/ UpdateAwaitExit \/ UpdateResumeExit

SpecTrade == InitTrade /\ [][NextTrade]_vars

\* C24 (overlapping signals): when a signal arrives for a (symbol,
\* timeframe) that already has a position, all open orders of the old
\* position are cancelled and any filled size is force-closed at market
\* before the new four-order set is placed: in the step that places the
\* new set, the old position is left with no open order and its side with
\* no size on the exchange.
C24_OverlapForceClose ==
    [][(positions # None /\ position_counter' = position_counter + 1) =>
          /\ \A p \in PurposeSet : exchange_orders'[positions][p] # "open"
          /\ exchange_size'[position_signal[positions].direction] = 0]_vars

\* the place of a status on the path PENDING -> ENTRY1_FILLED or
\* ENTRY2_FILLED -> BOTH_FILLED -> CLOSED
StatusRank(status) ==
    CASE status = "PENDING" -> 0
      [] status \in {"ENTRY1_FILLED", "ENTRY2_FILLED"} -> 1
      [] status = "BOTH_FILLED" -> 2
      [] status = "CLOSED" -> 3

\* C25 (order lifecycle): a managed position's status only moves forward
\* along PENDING -> ENTRY1_FILLED or ENTRY2_FILLED -> BOTH_FILLED -> CLOSED;
\* for any order of fill and close events it never returns to an earlier
\* status and never changes after CLOSED.  (A record that leaves the state
\* reads "none"; that is no change of status.)
C25_StatusForward ==
    [][\A id \in PositionIds :
          (/\ position_status[id] # "none"
           /\ position_status'[id] \notin {"none", position_status[id]}) =>
              StatusRank(position_status'[id]) > StatusRank(position_status[id])]_vars

C36_BothFilledStatus ==
    \A id \in PositionIds :
        (/\ positions = id
         /\ position_orders[id]["ENTRY1"].status = "filled"
         /\ position_orders[id]["ENTRY2"].status = "filled") =>
            position_status[id] = "BOTH_FILLED"

\* C37 (close the owner only): when the exchange answers a pass of
\* update_positions that awaited the TP or SL order of a position, and
\* another position has taken its place under the key meanwhile, that other
\* position is neither closed nor removed.
C37_CloseOwnerOnly ==
    [][(/\ upd_pos # None /\ upd_pos' = None
        /\ positions # None /\ positions # upd_pos) =>
            /\ positions' = positions
            /\ position_status'[positions] = position_status[positions]]_vars

\* C38 (one active position per key): self.positions holds nothing or one
\* position under the key, and the position it holds is not CLOSED, whatever
\* the sequence of creations, updates and closes: a position that was
\* closed is not found under the key.
C38_OneActivePerKey ==
    /\ positions \in PositionIds \cup {None}
    /\ positions # None => position_status[positions] \notin {"none", "CLOSED"}
    /\ \A id \in PositionIds : position_status[id] = "CLOSED" => positions # id

\* a second position is held under the key after the first, with a filled
\* entry, was closed for it
C38_Witness ==
    /\ positions = 1 /\ position_status[0] = "CLOSED"
    /\ position_orders[0]["ENTRY1"].status = "filled"

\* the mark price had passed the TP price when the signal was handled
PassedTp(sig) ==
    \/ sig.direction = "Long" /\ sig.mark >= sig.tp_price
    \/ sig.direction = "Short" /\ sig.mark <= sig.tp_price

\* C28 (TP already passed): if the mark price has already passed the TP
\* price at signal time (at or above TP for a Long, at or below TP for a
\* Short), the entire order set is skipped: no order is placed and no
\* position is opened.
C28_SkipWhenTpPassed ==
    \A id \in PositionIds :
        PassedTp(position_signal[id]) =>
            /\ positions # id
            /\ \A p \in PurposeSet : exchange_orders[id][p] = "none"

(***************************************************************************)
(* Specification SpecBacktest: BacktestEngine over a bar series.  Every    *)
(* bar is checked against the pending orders of the current trade, and a   *)
(* CHoCH signal found on a bar sets up a new trade with its four orders.   *)
(***************************************************************************)
MaxTrades == 2

\* en1, en2, tp and sl as on_choch_signal derives them from the pivots, for a
\* Long and for a Short
TradeSetups ==
    { [direction |-> "Long", en1 |-> 102, en2 |-> 100, tp |-> 106, sl |-> 96],
      [direction |-> "Short", en1 |-> 98, en2 |-> 100, tp |-> 94, sl |-> 104] }

\* the bars of the series: every high and low around the prices of the orders
PriceLevels == {93, 97, 99, 101, 103, 105, 107}
BacktestBars ==
    {b \in [high : PriceLevels, low : PriceLevels] : b.low <= b.high}

OrderTypes == <<"ENTRY1", "ENTRY2", "TAKE_PROFIT", "STOP_LOSS">>

\* create_orders: Entry1, Entry2, TP, SL appended in this order
create_orders(setup) ==
    [i \in 1..4 |->
        [order_type |-> OrderTypes[i], status |-> "PENDING",
         price |-> CASE i = 1 -> setup.en1 [] i = 2 -> setup.en2
                     [] i = 3 -> setup.tp [] i = 4 -> setup.sl]]

\* self.current_trade = None
NoTrade ==
    [direction |-> "None", entry1_filled |-> FALSE, entry2_filled |-> FALSE,
     tp_hit |-> FALSE, sl_hit |-> FALSE]

\* the dict on_choch_signal stores in self.current_trade
new_trade(setup) ==
    [direction |-> setup.direction, entry1_filled |-> FALSE, entry2_filled |-> FALSE,
     tp_hit |-> FALSE, sl_hit |-> FALSE]

\* a fill test that lets TP and SL trigger with no entry filled
order_fills_without_position(direction, order, bar, has_position) ==
    IF direction = "Long"
    THEN CASE order.order_type \in {"ENTRY1", "ENTRY2"} -> bar.low <= order.price
           [] order.order_type = "TAKE_PROFIT" -> bar.high >= order.price
           [] order.order_type = "STOP_LOSS" -> bar.low <= order.price
    ELSE CASE order.order_type \in {"ENTRY1", "ENTRY2"} -> bar.high >= order.price
           [] order.order_type = "TAKE_PROFIT" -> bar.low <= order.price
           [] order.order_type = "STOP_LOSS" -> bar.high >= order.price

\* check_orders: whether the bar fills the pending order
order_fills(direction, order, bar, has_position) ==
    IF direction = "Long"
    THEN CASE order.order_type \in {"ENTRY1", "ENTRY2"} -> bar.low <= order.price
           [] order.order_type = "TAKE_PROFIT" ->
                has_position /\ bar.high >= order.price
           [] order.order_type = "STOP_LOSS" ->
                has_position /\ bar.low <= order.price
    ELSE CASE order.order_type \in {"ENTRY1", "ENTRY2"} -> bar.high >= order.price
           [] order.order_type = "TAKE_PROFIT" ->
                has_position /\ bar.low <= order.price
           [] order.order_type = "STOP_LOSS" ->
                has_position /\ bar.high >= order.price

\* cancel_all_orders(except_order): except_idx is 0 for no exception
cancel_all_orders(orders, except_idx) ==
    [i \in DOMAIN orders |->
        IF orders[i].status = "PENDING" /\ i # except_idx
        THEN [orders[i] EXCEPT !.status = "CANCELLED"] ELSE orders[i]]

\* close_trade: the trades recorded after it; a trade with no entry filled
\* is dropped without a record
close_trade(trade, trades, reason) ==
    IF trade = NoTrade THEN trades
    ELSE IF ~trade.entry1_filled /\ ~trade.entry2_filled THEN trades
    ELSE Append(trades, [direction |-> trade.direction,
                         entry1_filled |-> trade.entry1_filled,
                         entry2_filled |-> trade.entry2_filled,
                         exit_reason |-> reason])

\* check_orders, the loop over the copy of pending_orders from order k on.
\* L holds self.current_trade, the order objects of the copy, whether
\* close_trade emptied self.pending_orders, the recorded trades, the local
\* has_position and the TP and SL fills.
RECURSIVE check_orders_from(_, _, _, _)
check_orders_from(k, L, direction, bar) ==
    IF k > Len(L.orders) THEN L
    ELSE LET order == L.orders[k]
             entry == order.order_type \in {"ENTRY1", "ENTRY2"}
             reason == IF order.order_type = "TAKE_PROFIT" THEN "TP" ELSE "SL"
             after ==
               IF order.status # "PENDING" THEN L
               ELSE IF ~order_fills(direction, order, bar, L.has_position) THEN L
               ELSE IF entry
               THEN [L EXCEPT !.orders[k].status = "FILLED",
                              !.trade.entry1_filled = @ \/ order.order_type = "ENTRY1",
                              !.trade.entry2_filled = @ \/ order.order_type = "ENTRY2",
                              !.has_position = TRUE]
               ELSE [L EXCEPT !.orders = [cancel_all_orders(L.orders, k)
                                             EXCEPT ![k].status = "FILLED"],
                              !.fills = @ \cup {[order_type |-> order.order_type,
                                                 entry1_filled |-> L.trade.entry1_filled,
                                                 entry2_filled |-> L.trade.entry2_filled]},
                              !.trades = close_trade(L.trade, L.trades, reason),
                              !.trade = NoTrade,
                              !.emptied = TRUE]
         IN  check_orders_from(k + 1, after, direction, bar)

InitBacktest ==
    /\ current_trade = NoTrade /\ pending_orders = <<>>
    /\ completed_trades = <<>> /\ exit_fills = {}
    /\ IdleFn /\ IdleClock /\ IdleLoop /\ IdleApi /\ IdleBus /\ IdleDet
    /\ IdleAgg /\ IdleScan /\ IdleHist /\ IdleFetch /\ IdlePairs /\ IdleTrade
    /\ IdleBoot

\* run_backtest: check_orders(current_bar) while a trade is set up
CheckOrders ==
    /\ current_trade # NoTrade /\ Len(completed_trades) < MaxTrades
    /\ \E bar \in BacktestBars :
       \E L \in {check_orders_from(1,
                    [trade |-> current_trade, orders |-> pending_orders,
                     emptied |-> FALSE, trades |-> completed_trades,
                     has_position |-> current_trade.entry1_filled
                                        \/ current_trade.entry2_filled,
                     fills |-> exit_fills],
                    current_trade.direction, bar)} :
         /\ current_trade' = L.trade
         /\ pending_orders' = IF L.emptied THEN <<>> ELSE L.orders
         /\ completed_trades' = L.trades
         /\ exit_fills' = L.fills
    /\ UNCHANGED <<fnVars, clockVars, loopVars, apiVars, busVars, detVars, aggVars,
                   scanVars, histVars, fetchVars, pairVars, tradeVars, bootVars>>

\* on_choch_signal: a trade that is still set up is force-closed when an
\* entry of it was filled and dropped otherwise, then the new trade and
\* its four orders are set up
OnChochSignal ==
    /\ Len(completed_trades) < MaxTrades
    /\ \E setup \in TradeSetups :
         /\ completed_trades' =
                close_trade(current_trade, completed_trades, "FORCED_CLOSE_NEW_SIGNAL")
         /\ current_trade' = new_trade(setup)
         /\ pending_orders' = create_orders(setup)
    /\ UNCHANGED exit_fills
    /\ UNCHANGED <<fnVars, clockVars, loopVars, apiVars, busVars, detVars, aggVars,
                   scanVars, histVars, fetchVars, pairVars, tradeVars, bootVars>>

NextBacktest == CheckOrders \/ OnChochSignal

SpecBacktest == InitBacktest /\ [][NextBacktest]_vars

\* C35 (exits need an entry): every TP or SL fill of the backtest happened
\* with an entry of the trade already filled, and every recorded trade has
\* a filled entry.
C35_ExitNeedsEntry ==
    /\ \A f \in exit_fills : f.entry1_filled \/ f.entry2_filled
    /\ \A i \in DOMAIN completed_trades :
          completed_trades[i].entry1_filled \/ completed_trades[i].entry2_filled

\* a trade was closed on its TP with one entry filled, and one on its SL
C35_Witness ==
    /\ \E i \in DOMAIN completed_trades :
          /\ completed_trades[i].exit_reason = "TP"
          /\ ~completed_trades[i].entry2_filled
    /\ \E f \in exit_fills : f.order_type = "STOP_LOSS"

(***************************************************************************)
(* Specification SpecBoot: the scanner is started with a configuration     *)
(* read from the environment                                               *)
(***************************************************************************)
\* TIMEFRAMES settings: the default, a native name, the synthesised name
\* without a reference time, a name no table knows, and the [''] that an
\* empty TIMEFRAMES variable splits into
TimeframeSettings ==
    { <<"10m", "20m", "40m", "25m", "45m", "15m", "30m", "1h">>,
      <<"15m">>, <<"25m", "45m">>, <<"15min">>, <<"">> }

\* the settings validate_config reads, as the module holds them after
\* os.getenv
Configs ==
    [TELEGRAM_BOT_TOKEN : {"", "token"}, TELEGRAM_CHAT_ID : {"", "chat"},
     FETCH_ALL_COINS : BOOLEAN, SYMBOLS : {""}, SYMBOL : {"", "BTCUSDT"},
     TIMEFRAMES : TimeframeSettings, PIVOT_LEFT : {0, 1}, PIVOT_RIGHT : {1},
     ENABLE_CHART : BOOLEAN, CHART_MODE : {"realtime", "history", "live"}]

\* config.validate_config: the errors it collects
validate_config(c) ==
    (IF c.TELEGRAM_BOT_TOKEN = "" THEN {"TELEGRAM_BOT_TOKEN is required"} ELSE {})
    \cup (IF c.TELEGRAM_CHAT_ID = "" THEN {"TELEGRAM_CHAT_ID is required"} ELSE {})
    \cup (IF ~c.FETCH_ALL_COINS /\ c.SYMBOLS = "" /\ c.SYMBOL = ""
          THEN {"SYMBOL or SYMBOLS or FETCH_ALL_COINS is required"} ELSE {})
    \cup (IF c.TIMEFRAMES = <<>> THEN {"At least one TIMEFRAME is required"} ELSE {})
    \cup (IF c.PIVOT_LEFT < 1 \/ c.PIVOT_RIGHT < 1
          THEN {"PIVOT_LEFT and PIVOT_RIGHT must be >= 1"} ELSE {})
    \cup (IF c.ENABLE_CHART /\ c.CHART_MODE \notin {"history", "realtime"}
          THEN {"CHART_MODE must be 'history' or 'realtime'"} ELSE {})

InitBoot ==
    /\ cfg \in Configs
    /\ boot_pc = "main" /\ config_errors = {}
    /\ IdleFn /\ IdleClock /\ IdleLoop /\ IdleApi /\ IdleBus /\ IdleDet
    /\ IdleAgg /\ IdleScan /\ IdleHist /\ IdleFetch /\ IdlePairs /\ IdleTrade
    /\ IdleBacktest

\* ChochAlertSystem.__init__: validate_config, sys.exit(1) on its
\* ValueError, else the components and the TimeframeScheduler, which takes
\* every configured name (TF_TO_MINUTES.get(tf, 60))
Construct ==
    /\ boot_pc = "main"
    /\ config_errors' = validate_config(cfg)
    /\ boot_pc' = IF validate_config(cfg) # {} THEN "exit(1)" ELSE "constructed"
    /\ UNCHANGED cfg
    /\ UNCHANGED <<fnVars, clockVars, loopVars, apiVars, busVars, detVars, aggVars,
                   scanVars, histVars, fetchVars, pairVars, tradeVars, backtestVars>>

\* ChochAlertSystem.start: mode_history, or mode_realtime and its scan loop
Start ==
    /\ boot_pc = "constructed"
    /\ boot_pc' = IF cfg.ENABLE_CHART /\ cfg.CHART_MODE = "history"
                  THEN "mode_history" ELSE "scan_loop"
    /\ UNCHANGED <<cfg, config_errors>>
    /\ UNCHANGED <<fnVars, clockVars, loopVars, apiVars, busVars, detVars, aggVars,
                   scanVars, histVars, fetchVars, pairVars, tradeVars, backtestVars>>

NextBoot == Construct \/ Start

SpecBoot == InitBoot /\ [][NextBoot]_vars

\* a required key is missing
MissingRequiredKey(c) ==
    \/ c.TELEGRAM_BOT_TOKEN = "" \/ c.TELEGRAM_CHAT_ID = ""
    \/ (~c.FETCH_ALL_COINS /\ c.SYMBOLS = "" /\ c.SYMBOL = "")

\* a configured timeframe is no name of the scheduler's or the adapter's
\* tables
BadTimeframeFormat(c) ==
    \E i \in DOMAIN c.TIMEFRAMES :
        c.TIMEFRAMES[i] \notin (DOMAIN TF_TO_MINUTES \cup DOMAIN AGGREGATION_MAP)

\* a configured timeframe is synthesised and has no reference time
UnsupportedSynthesised(c) ==
    \E i \in DOMAIN c.TIMEFRAMES :
        /\ c.TIMEFRAMES[i] \in DOMAIN AGGREGATION_MAP
        /\ c.TIMEFRAMES[i] \notin DOMAIN TIMEFRAME_REFERENCES

\* C29 (configuration errors): with a configuration error (a missing
\* required key, a badly formatted timeframe, or a synthesised timeframe
\* that is unsupported because it has no reference instant) the scanner
\* refuses to start: it never enters the scan loop.
C29_ConfigErrorRefusesStart ==
    (MissingRequiredKey(cfg) \/ BadTimeframeFormat(cfg) \/ UnsupportedSynthesised(cfg)) =>
        boot_pc # "scan_loop"

(***************************************************************************)
(* Specification SpecApi: one TimeframeScheduler driven through            *)
(* should_scan and mark_scanned while the clock advances                   *)
(***************************************************************************)
\* config.TIMEFRAMES of the modelled deployment, in list order
TIMEFRAMES == <<"5m", "15m">>
TimeframeSet == {TIMEFRAMES[i] : i \in DOMAIN TIMEFRAMES}

\* second s of h:m on day d after 2025-10-20
At(d, h, m, s) == d * DaySeconds + h * 3600 + m * 60 + s

\* the clock starts on 2025-11-10 at 14:29:50 and runs for Horizon seconds
StartNow == At(21, 14, 29, 50)
Horizon == 1000
MaxNow == StartNow + Horizon

TickSteps == {1, 29, 300}

InitClock ==
    /\ now = StartNow
    /\ last_scanned_close = [tf \in TimeframeSet |-> None]

InitApi ==
    /\ InitClock /\ IdleApi /\ IdleFn /\ IdleLoop /\ IdleBus /\ IdleDet
    /\ IdleAgg /\ IdleScan /\ IdleHist /\ IdlePort

ApiTick ==
    \E d \in TickSteps :
        /\ now + d <= MaxNow
        /\ now' = now + d
        /\ api_tf' = "none" /\ api_at' = None /\ api_last' = None /\ api_ready' = FALSE
        /\ UNCHANGED <<last_scanned_close, fnVars, loopVars, busVars, detVars, aggVars, scanVars, histVars, portVars>>

ApiShouldScan ==
    \E tf \in TimeframeSet :
        /\ api_tf' = tf
        /\ api_at' = now
        /\ api_last' = last_scanned_close[tf]
        /\ api_ready' = should_scan(tf, now, last_scanned_close[tf])
        /\ UNCHANGED <<clockVars, fnVars, loopVars, busVars, detVars, aggVars, scanVars, histVars, portVars>>

\* mark_scanned(timeframe) with close_time left to its default
mark_scanned(tf, t) ==
    [last_scanned_close EXCEPT ![tf] = get_prev_candle_close_time(tf, t)]

ApiMarkScanned ==
    \E tf \in TimeframeSet :
        /\ last_scanned_close' = mark_scanned(tf, now)
        /\ api_tf' = "none" /\ api_at' = None /\ api_last' = None /\ api_ready' = FALSE
        /\ UNCHANGED <<now, fnVars, loopVars, busVars, detVars, aggVars, scanVars, histVars, portVars>>

NextApi == ApiTick \/ ApiShouldScan \/ ApiMarkScanned

SpecApi == InitApi /\ [][NextApi]_vars

NumSymbols == 1

\* seconds one (symbol, timeframe) pair may take, its sleeps included
ScanDurations == {1, 150, 290}

\* asyncio.sleep(10) before the symbol list is fetched again
SymbolsRetrySleep == 10
\* longest single sleep of the wait loop
WaitChunk == 5

InitLoop ==
    /\ InitClock
    /\ running = TRUE /\ pc = "top" /\ scannable_timeframes = {}
    /\ sym_i = 0 /\ tf_i = 0 /\ remaining = 0 /\ iter_start = None
    /\ failed_tfs = {} /\ scanned = {} /\ rescanned = FALSE
    /\ IdleFn /\ IdleApi /\ IdleBus /\ IdleDet
    /\ IdleAgg /\ IdleScan /\ IdleHist /\ IdlePort

get_scannable_timeframes(t) ==
    {tf \in TimeframeSet : should_scan(tf, t, last_scanned_close[tf])}

\* while self.running: ... is left when running is false
LoopExit ==
    /\ pc = "top" /\ ~running
    /\ pc' = "exited"
    /\ UNCHANGED <<clockVars, running, scannable_timeframes, sym_i, tf_i, remaining,
                   iter_start, failed_tfs, scanned, rescanned, fnVars, apiVars, busVars, detVars, aggVars, scanVars, histVars, portVars>>

\* no timeframe is ready: await asyncio.sleep(1); continue
LoopIdle ==
    /\ pc = "top" /\ running
    /\ get_scannable_timeframes(now) = {}
    /\ now + 1 <= MaxNow
    /\ now' = now + 1
    /\ UNCHANGED <<last_scanned_close, running, pc, scannable_timeframes, iter_start,
                   sym_i, tf_i, remaining,
                   failed_tfs, scanned, rescanned, fnVars, apiVars, busVars, detVars, aggVars, scanVars, histVars, portVars>>

\* some timeframe is ready: the iteration starts
LoopReady ==
    /\ pc = "top" /\ running
    /\ get_scannable_timeframes(now) # {}
    /\ scannable_timeframes' = get_scannable_timeframes(now)
    /\ iter_start' = now
    /\ failed_tfs' = {}
    /\ rescanned' = (rescanned \/ \E tf \in get_scannable_timeframes(now) :
                        <<tf, get_prev_candle_close_time(tf, now)>> \in scanned)
    /\ pc' = "symbols"
    /\ UNCHANGED <<clockVars, running, sym_i, tf_i, remaining, scanned,
                   fnVars, apiVars, busVars, detVars, aggVars, scanVars, histVars, portVars>>

\* the symbol list is obtained
GetSymbolsOk ==
    /\ pc = "symbols"
    /\ pc' = "scan" /\ sym_i' = 1 /\ tf_i' = 1
    /\ UNCHANGED <<clockVars, running, scannable_timeframes, remaining, iter_start,
                   failed_tfs, scanned, rescanned, fnVars, apiVars, busVars, detVars, aggVars, scanVars, histVars, portVars>>

\* fetching the symbol list raised: sleep 10 s and start over
GetSymbolsFail ==
    /\ pc = "symbols"
    /\ now + SymbolsRetrySleep <= MaxNow
    /\ now' = now + SymbolsRetrySleep
    /\ pc' = "top"
    /\ scannable_timeframes' = {} /\ iter_start' = None
    /\ UNCHANGED <<last_scanned_close, running, sym_i, tf_i,
                   remaining, failed_tfs, scanned, rescanned,
                   fnVars, apiVars, busVars, detVars, aggVars, scanVars, histVars, portVars>>

\* scannable_timeframes in the order of the scheduler's timeframe list
ScanOrder == SelectSeq(TIMEFRAMES, LAMBDA tf : tf \in scannable_timeframes)

\* for symbol in selected_symbols: if not self.running: break
ScanBreak ==
    /\ pc = "scan" /\ tf_i = 1
    /\ (sym_i > NumSymbols \/ ~running)
    /\ pc' = "mark"
    /\ UNCHANGED <<clockVars, running, scannable_timeframes, sym_i, tf_i, remaining,
                   iter_start, failed_tfs, scanned, rescanned, fnVars, apiVars, busVars, detVars, aggVars, scanVars, histVars, portVars>>

\* the close a ready timeframe is scanned for in the running iteration
ScannedClose(tf) == get_prev_candle_close_time(tf, iter_start)

\* a pair loop whose except clause ends the monitor loop
ScanPair_halts_on_error ==
    /\ pc = "scan" /\ sym_i <= NumSymbols
    /\ (tf_i = 1 => running)
    /\ \E d \in ScanDurations, attempt \in {"ok", "error"} :
        /\ now + d <= MaxNow
        /\ now' = now + d
        /\ failed_tfs' = IF attempt = "error"
                         THEN failed_tfs \cup {ScanOrder[tf_i]} ELSE failed_tfs
        /\ failed_closes' = IF attempt = "error"
                            THEN failed_closes \cup
                                   {<<ScanOrder[tf_i], ScannedClose(ScanOrder[tf_i])>>}
                            ELSE failed_closes
        /\ ok_closes' = IF attempt = "ok"
                        THEN ok_closes \cup
                               {<<ScanOrder[tf_i], ScannedClose(ScanOrder[tf_i])>>}
                        ELSE ok_closes
        /\ pc' = IF attempt = "error" THEN "exited" ELSE pc
    /\ IF tf_i < Len(ScanOrder)
       THEN tf_i' = tf_i + 1 /\ sym_i' = sym_i
       ELSE tf_i' = 1 /\ sym_i' = sym_i + 1
    /\ UNCHANGED <<last_scanned_close, running, scannable_timeframes, remaining,
                   iter_start, scanned, rescanned, fnVars, apiVars, busVars, detVars,
                   aggVars, scanVars, df_offset, portVars>>

\* one (symbol, timeframe) pair: fetch, rebuild, confirm; an exception is
\* logged, the pair skipped and the for loop goes on with the next pair
ScanPair ==
    /\ pc = "scan" /\ sym_i <= NumSymbols
    /\ (tf_i = 1 => running)
    /\ \E d \in ScanDurations, attempt \in {"ok", "error"} :
        /\ now + d <= MaxNow
        /\ now' = now + d
        /\ failed_tfs' = IF attempt = "error"
                         THEN failed_tfs \cup {ScanOrder[tf_i]} ELSE failed_tfs
        /\ failed_closes' = IF attempt = "error"
                            THEN failed_closes \cup
                                   {<<ScanOrder[tf_i], ScannedClose(ScanOrder[tf_i])>>}
                            ELSE failed_closes
        /\ ok_closes' = IF attempt = "ok"
                        THEN ok_closes \cup
                               {<<ScanOrder[tf_i], ScannedClose(ScanOrder[tf_i])>>}
                        ELSE ok_closes
    /\ IF tf_i < Len(ScanOrder)
       THEN tf_i' = tf_i + 1 /\ sym_i' = sym_i
       ELSE tf_i' = 1 /\ sym_i' = sym_i + 1
    /\ UNCHANGED <<last_scanned_close, running, pc, scannable_timeframes, remaining,
                   iter_start, scanned, rescanned, fnVars, apiVars, busVars, detVars,
                   aggVars, scanVars, df_offset, portVars>>

\* min over config.TIMEFRAMES of the next candle close
NextScanTime(t) ==
    LET closes == {get_next_candle_close_time(tf, t) : tf \in TimeframeSet}
    IN  CHOOSE c \in closes : \A o \in closes : c <= o

\* for timeframe in scannable_timeframes:
\*     self.scheduler.last_scanned_close[timeframe] = get_prev_candle_close_time(timeframe)
MarkAll(t) ==
    [tf \in TimeframeSet |->
        IF tf \in scannable_timeframes
        THEN get_prev_candle_close_time(tf, t)
        ELSE last_scanned_close[tf]]

MarkScanned ==
    /\ pc = "mark"
    /\ last_scanned_close' = MarkAll(now)
    /\ scanned' = scanned \cup
            {<<tf, get_prev_candle_close_time(tf, iter_start)>> : tf \in scannable_timeframes}
    /\ remaining' = Max2(0, NextScanTime(now) - now)
    /\ pc' = "wait"
    /\ sym_i' = 0 /\ tf_i' = 0
    /\ UNCHANGED <<now, running, scannable_timeframes, iter_start,
                   failed_tfs, rescanned, fnVars, apiVars, busVars, detVars, aggVars, scanVars, histVars, portVars>>

\* a wait that sleeps until the next scan time whatever running says
WaitSleep_ignores_running ==
    /\ pc = "wait" /\ remaining > 0
    /\ LET chunk == IF remaining > WaitChunk THEN WaitChunk ELSE remaining IN
        /\ now + chunk <= MaxNow
        /\ now' = now + chunk
        /\ remaining' = remaining - chunk
    /\ scannable_timeframes' = {} /\ iter_start' = None /\ failed_tfs' = {}
    /\ UNCHANGED <<last_scanned_close, running, pc, sym_i, tf_i,
                   scanned, rescanned, fnVars, apiVars, busVars, detVars, aggVars, scanVars, histVars, portVars>>

\* while remaining > 0 and self.running: sleep a chunk of at most 5 s
WaitSleep ==
    /\ pc = "wait" /\ remaining > 0 /\ running
    /\ LET chunk == IF remaining > WaitChunk THEN WaitChunk ELSE remaining IN
        /\ now + chunk <= MaxNow
        /\ now' = now + chunk
        /\ remaining' = remaining - chunk
    /\ scannable_timeframes' = {} /\ iter_start' = None /\ failed_tfs' = {}
    /\ UNCHANGED <<last_scanned_close, running, pc, sym_i, tf_i,
                   scanned, rescanned, fnVars, apiVars, busVars, detVars, aggVars, scanVars, histVars, portVars>>

WaitDone ==
    /\ pc = "wait" /\ (remaining <= 0 \/ ~running)
    /\ pc' = "top"
    /\ scannable_timeframes' = {} /\ iter_start' = None /\ failed_tfs' = {}
    /\ UNCHANGED <<clockVars, running, sym_i, tf_i, remaining,
                   scanned, rescanned, fnVars, apiVars, busVars, detVars, aggVars, scanVars, histVars, portVars>>

\* stop(): self.running = False
Stop ==
    /\ running /\ pc # "exited"
    /\ running' = FALSE
    /\ UNCHANGED <<clockVars, pc, scannable_timeframes, sym_i, tf_i, remaining,
                   iter_start, failed_tfs, scanned, rescanned, fnVars, apiVars, busVars, detVars, aggVars, scanVars, histVars, portVars>>

NextLoop ==
    \/ LoopExit \/ LoopIdle \/ LoopReady \/ GetSymbolsOk \/ GetSymbolsFail
    \/ ScanBreak \/ ScanPair \/ MarkScanned \/ WaitSleep \/ WaitDone \/ Stop

SpecLoop == InitLoop /\ [][NextLoop]_vars

\* C1: a close for which should_scan answered true and which the loop then
\* marked is never found ready again: no (timeframe, close) is scanned twice.
C1_AtMostOnce ==
    /\ ~rescanned
    /\ \A tf \in TimeframeSet :
        <<tf, get_prev_candle_close_time(tf, now)>> \in scanned
            => ~should_scan(tf, now, last_scanned_close[tf])

\* a marked close exists while the loop is back at its top, later that second
C1_Witness ==
    /\ pc = "top" /\ running
    /\ \E tf \in TimeframeSet :
        <<tf, get_prev_candle_close_time(tf, now)>> \in scanned

\* C9: the marking step records, for each ready timeframe, the previous close
\* as of the instant the iteration started.
C9_MarkAtLoopStart ==
    (pc = "wait" /\ iter_start # None) =>
        \A tf \in scannable_timeframes :
            last_scanned_close[tf] = get_prev_candle_close_time(tf, iter_start)

C32_MarkOnlyAfterSuccess ==
    [][\A tf \in TimeframeSet :
          last_scanned_close'[tf] # last_scanned_close[tf] =>
              /\ pc = "mark"
              /\ tf \in scannable_timeframes
              /\ <<tf, ScannedClose(tf)>> \in ok_closes]_vars

\* the event loop runs monitor_loop whenever it can take a step: every sleep
\* and every awaited call of an iteration returns
SpecStop == InitLoop /\ [][NextLoop]_vars /\ WF_vars(NextLoop)

\* the longest the pairs of one symbol, a retry sleep included, can take
SymbolBudget == Len(TIMEFRAMES) * 290 + SymbolsRetrySleep

\* C40 (stopping): once stop() has set running to false the loop starts no
\* new iteration, starts no new symbol (it only finishes the timeframes of the
\* symbol in progress), begins no further sleep chunk of the wait, no chunk
\* of the wait is longer than 5 s, and the loop is left.
C40_StopTerminates ==
    /\ [][(~running /\ pc = "top") => pc' \in {"top", "exited"}]_vars
    /\ [][(~running /\ pc = "scan" /\ tf_i = 1) =>
              (pc' = "mark" \/ (sym_i' = sym_i /\ tf_i' = tf_i))]_vars
    /\ [][(~running /\ pc = "scan" /\ pc' = "scan") => sym_i' <= sym_i + 1]_vars
    /\ [][(~running /\ pc = "wait") => now' = now]_vars
    /\ [][(pc = "wait" /\ pc' = "wait") => now' - now <= WaitChunk]_vars
    /\ [](pc = "exited" => ~running)
    /\ ((~running /\ now + SymbolBudget <= MaxNow) ~> (pc = "exited"))

\* stop() arrived during a wait that had time left, and the loop was left
C40_Witness ==
    pc = "exited" /\ scanned # {} /\ remaining > 0

(***************************************************************************)
(* Specification SpecBus: SignalBus.  publish creates one task per         *)
(* subscriber and awaits them together; the tasks interleave at the awaits *)
(* of the subscribers.  Signals are numbered in publish order.             *)
(***************************************************************************)
MaxSignals == 2

InSeq(x, sq) == \E i \in DOMAIN sq : sq[i] = x

InitBus ==
    /\ subscribers = <<>> /\ signal_count = 0 /\ bus_pc = "idle" /\ dispatched = <<>>
    /\ task = [s \in SubscriberIds |-> "none"]
    /\ outcome = [s \in SubscriberIds |-> "none"]
    /\ observed = [s \in SubscriberIds |-> <<>>]
    /\ completed = [s \in SubscriberIds |-> <<>>]
    /\ success_count = 0 /\ error_count = 0
    /\ IdleFn /\ IdleClock /\ IdleLoop /\ IdleApi /\ IdleDet
    /\ IdleAgg /\ IdleScan /\ IdleHist /\ IdlePort

\* subscribe(callback): appended unless already present
Subscribe ==
    \E cb \in SubscriberIds :
        /\ ~InSeq(cb, subscribers)
        /\ subscribers' = Append(subscribers, cb)
        /\ UNCHANGED <<signal_count, bus_pc, dispatched, task, outcome, observed,
                       completed, success_count, error_count,
                       fnVars, clockVars, loopVars, apiVars, detVars, aggVars, scanVars, histVars, portVars>>

\* unsubscribe(callback)
Unsubscribe ==
    \E cb \in SubscriberIds :
        /\ InSeq(cb, subscribers)
        /\ subscribers' = SelectSeq(subscribers, LAMBDA x : x # cb)
        /\ UNCHANGED <<signal_count, bus_pc, dispatched, task, outcome, observed,
                       completed, success_count, error_count,
                       fnVars, clockVars, loopVars, apiVars, detVars, aggVars, scanVars, histVars, portVars>>

\* a publish the caller does not await: the next signal is published while
\* the tasks of the previous one are still pending
PublishStart_while_pending ==
    /\ bus_pc \in {"idle", "returned", "gather"}
    /\ signal_count < MaxSignals
    /\ signal_count' = signal_count + 1
    /\ IF Len(subscribers) = 0
       THEN /\ bus_pc' = "returned"
            /\ dispatched' = <<>>
            /\ task' = [s \in SubscriberIds |-> "none"]
       ELSE /\ bus_pc' = "gather"
            /\ dispatched' = subscribers
            /\ task' = [s \in SubscriberIds |->
                            IF InSeq(s, subscribers) THEN "created" ELSE "none"]
    /\ outcome' = [s \in SubscriberIds |-> "none"]
    /\ success_count' = 0 /\ error_count' = 0
    /\ UNCHANGED <<subscribers, observed, completed,
                   fnVars, clockVars, loopVars, apiVars, detVars, aggVars, scanVars, histVars, portVars>>

\* publish(signal) up to the await of gather: the count is raised and, when
\* there are subscribers, one task is created for each of them
PublishStart ==
    /\ bus_pc \in {"idle", "returned"}
    /\ signal_count < MaxSignals
    /\ signal_count' = signal_count + 1
    /\ IF Len(subscribers) = 0
       THEN /\ bus_pc' = "returned"
            /\ dispatched' = <<>>
            /\ task' = [s \in SubscriberIds |-> "none"]
       ELSE /\ bus_pc' = "gather"
            /\ dispatched' = subscribers
            /\ task' = [s \in SubscriberIds |->
                            IF InSeq(s, subscribers) THEN "created" ELSE "none"]
    /\ outcome' = [s \in SubscriberIds |-> "none"]
    /\ success_count' = 0 /\ error_count' = 0
    /\ UNCHANGED <<subscribers, observed, completed,
                   fnVars, clockVars, loopVars, apiVars, detVars, aggVars, scanVars, histVars, portVars>>

\* the event loop starts the tasks in the order of their creation;
\* _safe_call_subscriber enters the subscriber with the signal
TaskStart ==
    \E i \in DOMAIN dispatched :
        /\ bus_pc = "gather"
        /\ task[dispatched[i]] = "created"
        /\ \A j \in 1..(i - 1) : task[dispatched[j]] # "created"
        /\ task' = [task EXCEPT ![dispatched[i]] = "running"]
        /\ observed' = [observed EXCEPT ![dispatched[i]] = Append(@, signal_count)]
        /\ UNCHANGED <<subscribers, signal_count, bus_pc, dispatched, outcome,
                       completed, success_count, error_count,
                       fnVars, clockVars, loopVars, apiVars, detVars, aggVars, scanVars, histVars, portVars>>

\* a dispatch in which an exception of one subscriber cancels the tasks of
\* the others that have not finished
FinishTask_cancels_peers(s, how) ==
    [x \in SubscriberIds |->
        IF x = s THEN (IF how = "ok" THEN "true" ELSE "false")
        ELSE IF how = "raise" /\ task[x] \in {"created", "running"} THEN "cancelled"
        ELSE task[x]]

\* the task table once subscriber s left _safe_call_subscriber: the try /
\* except turns an exception into the result False and touches no other task
FinishTask(s, how) == [task EXCEPT ![s] = IF how = "ok" THEN "true" ELSE "false"]

\* the subscriber returns or raises an Exception
TaskFinish ==
    \E s \in SubscriberIds, how \in {"ok", "raise"} :
        /\ bus_pc = "gather"
        /\ task[s] = "running"
        /\ task' = FinishTask(s, how)
        /\ outcome' = [outcome EXCEPT ![s] = how]
        /\ completed' = IF how = "ok"
                        THEN [completed EXCEPT ![s] = Append(@, signal_count)]
                        ELSE completed
        /\ UNCHANGED <<subscribers, signal_count, bus_pc, dispatched, observed,
                       success_count, error_count,
                       fnVars, clockVars, loopVars, apiVars, detVars, aggVars, scanVars, histVars, portVars>>

Finished(st) == st \in {"true", "false", "exception", "cancelled"}

\* asyncio.gather(*tasks, return_exceptions=True) returns once every task has
\* finished; the results are counted and publish returns
GatherReturn ==
    /\ bus_pc = "gather"
    /\ \A i \in DOMAIN dispatched : Finished(task[dispatched[i]])
    /\ success_count' = Cardinality({i \in DOMAIN dispatched : task[dispatched[i]] = "true"})
    /\ error_count' = Cardinality({i \in DOMAIN dispatched : task[dispatched[i]] = "exception"})
    /\ bus_pc' = "returned"
    /\ UNCHANGED <<subscribers, signal_count, dispatched, task, outcome, observed,
                   completed, fnVars, clockVars, loopVars, apiVars, detVars, aggVars, scanVars, histVars, portVars>>

NextBus ==
    \/ Subscribe \/ Unsubscribe \/ PublishStart \/ TaskStart \/ TaskFinish \/ GatherReturn

SpecBus == InitBus /\ [][NextBus]_vars

\* C3: when publish has returned and some subscriber raised on the signal,
\* every other subscriber the signal was dispatched to was invoked with it,
\* and each one that did not raise ran to completion on it; no task is ever
\* cancelled or left unfinished because of a peer.
C3_BusIsolation ==
    (bus_pc = "returned" /\ \E a \in SubscriberIds : outcome[a] = "raise") =>
        \A i \in DOMAIN dispatched :
            LET b == dispatched[i] IN
            /\ Len(observed[b]) > 0 /\ observed[b][Len(observed[b])] = signal_count
            /\ outcome[b] # "raise" =>
                /\ task[b] = "true"
                /\ Len(completed[b]) > 0
                /\ completed[b][Len(completed[b])] = signal_count

\* publish returned after one subscriber raised and another completed
C3_Witness ==
    /\ bus_pc = "returned"
    /\ \E a, b \in SubscriberIds :
        /\ outcome[a] = "raise" /\ outcome[b] = "ok"
        /\ InSeq(signal_count, completed[b])

\* C14 (the bus counts and never re-raises): once publish has returned on a
\* signal that was dispatched, every dispatched subscriber has finished, the
\* successes counted are the subscribers that returned and the failures
\* counted are the subscribers that raised.
C14_PublishCounts ==
    (bus_pc = "returned" /\ Len(dispatched) > 0) =>
        /\ \A i \in DOMAIN dispatched : Finished(task[dispatched[i]])
        /\ success_count =
              Cardinality({i \in DOMAIN dispatched : outcome[dispatched[i]] = "ok"})
        /\ error_count =
              Cardinality({i \in DOMAIN dispatched : outcome[dispatched[i]] = "raise"})

\* C15 (per-subscriber ordering): the signals a subscriber was invoked with
\* are in publish order, a subscriber that is handling a signal is handling
\* the latest one published, and publish is not invoked again while a
\* handler of the previous signal is pending.
C15_SubscriberOrder ==
    /\ [](\A s \in SubscriberIds :
            \A i, j \in DOMAIN observed[s] :
                i < j => observed[s][i] < observed[s][j])
    /\ [](\A s \in SubscriberIds :
            task[s] = "running" => observed[s][Len(observed[s])] = signal_count)
    /\ [][signal_count' # signal_count =>
            \A s \in SubscriberIds : task[s] \notin {"created", "running"}]_vars

\* both subscribers handled the first signal and are handling the second
C15_Witness ==
    /\ signal_count = 2
    /\ \A s \in SubscriberIds :
         /\ observed[s] = <<1, 2>>
         /\ task[s] = "running"

(***************************************************************************)
(* ChochDetector: candles, per-key state, pivot detection                  *)
(* A dataframe is a sequence of closed candles; the index of a bar is its  *)
(* position, the first bar having index 1 (iloc 0 of the source).          *)
(***************************************************************************)
Bar(h, l, c, v) == [high |-> h, low |-> l, close |-> c, volume |-> v]

\* the value of a one-element set; Only({F(x) : x \in {v}}) is the local
\* variable assignment x = v followed by F(x), with v computed once
Only(S) == CHOOSE r \in S : TRUE

\* Optional[str] None of pattern_group
NoGroup == "None"

left  == 1
right == 1

allow_variants ==
    [v \in {"PH1", "PH2", "PH3", "PL1", "PL2", "PL3"} |-> TRUE]

\* TimeframeState as __init__ leaves it (the fields the detector reads)
TimeframeState ==
    [prices |-> <<>>, bars |-> <<>>, highs |-> <<>>,
     last_eight_up |-> FALSE, last_eight_down |-> FALSE,
     last_eight_bar_idx |-> None, pivot5 |-> None, pivot6 |-> None,
     pattern_group |-> NoGroup, choch_locked |-> FALSE,
     choch_bar_idx |-> None, choch_price |-> None]

\* a reset that forgets to clear the lock
reset_keeps_lock(st) ==
    [TimeframeState EXCEPT !.choch_locked = st.choch_locked]

\* a reset that leaves the stored pivots in place
reset_keeps_pivots(st) ==
    [TimeframeState EXCEPT !.prices = st.prices, !.bars = st.bars, !.highs = st.highs]

reset(st) == TimeframeState

store_pivot(st, bar, price, is_high) ==
    [st EXCEPT !.bars = Append(@, bar), !.prices = Append(@, price),
               !.highs = Append(@, is_high)]

pivot_count(st) == Len(st.prices)

get_pivot_from_end(st, idx_from_end) ==
    LET idx == Len(st.prices) - idx_from_end
    IN  [bar |-> st.bars[idx], price |-> st.prices[idx], is_high |-> st.highs[idx]]

is_pivot_high_basic(w, i) ==
    /\ \A j \in (i - left)..(i - 1) : ~(w[j].high >= w[i].high)
    /\ \A j \in (i + 1)..(i + right) : ~(w[j].high > w[i].high)

is_pivot_low_basic(w, i) ==
    /\ \A j \in (i - left)..(i - 1) : ~(w[j].low <= w[i].low)
    /\ \A j \in (i + 1)..(i + right) : ~(w[j].low < w[i].low)

classify_variant(w, pivot_idx, is_high) ==
    IF pivot_idx < 2 \/ pivot_idx >= Len(w) THEN "NA"
    ELSE
      LET h3 == w[pivot_idx - 1].high
          h2 == w[pivot_idx].high
          h1 == w[pivot_idx + 1].high
          l3 == w[pivot_idx - 1].low
          l2 == w[pivot_idx].low
          l1 == w[pivot_idx + 1].low
      IN  IF is_high
          THEN IF (h2 > h1 /\ h2 > h3) /\ (l2 > l1 /\ l2 > l3) THEN "PH1"
               ELSE IF (h2 >= h1 /\ h2 > h3) /\ (l2 > l3 /\ l2 < l1) THEN "PH2"
               ELSE IF (h2 > h1 /\ h2 >= h3) /\ (l2 < l3 /\ l2 > l1) THEN "PH3"
               ELSE "NA"
          ELSE IF (l2 < l1 /\ l2 < l3) /\ (h2 < h1 /\ h2 < h3) THEN "PL1"
               ELSE IF (h2 >= h1 /\ h2 < h3) /\ (l2 < l3 /\ l2 <= l1) THEN "PL2"
               ELSE IF (l2 < l1 /\ l2 < l3) /\ (h2 < h1 /\ h2 > h3) THEN "PL3"
               ELSE "NA"

\* self.allow_variants.get(variant, False)
Allowed(variant) ==
    variant # "NA" /\ variant \in DOMAIN allow_variants /\ allow_variants[variant]

\* the loop body of detect_pivots_with_variants for the bars i, i+1, ...
RECURSIVE detect_from(_, _)
detect_from(w, i) ==
    IF i > Len(w) - right THEN <<>>
    ELSE
      LET vh == classify_variant(w, i, TRUE)
          vl == classify_variant(w, i, FALSE)
          hi == IF is_pivot_high_basic(w, i) /\ Allowed(vh)
                THEN <<[idx |-> i, price |-> w[i].high, is_high |-> TRUE, variant |-> vh]>>
                ELSE <<>>
          lo == IF is_pivot_low_basic(w, i) /\ Allowed(vl)
                THEN <<[idx |-> i, price |-> w[i].low, is_high |-> FALSE, variant |-> vl]>>
                ELSE <<>>
      IN  hi \o lo \o detect_from(w, i + 1)

detect_pivots_with_variants(w) == detect_from(w, left + 1)

\* Series.idxmin / idxmax over the bars a..b: the first bar holding the extreme
idxmin_low(w, a, b) ==
    CHOOSE j \in a..b : \A k \in a..b :
        w[k].low > w[j].low \/ (w[k].low = w[j].low /\ k >= j)

idxmax_high(w, a, b) ==
    CHOOSE j \in a..b : \A k \in a..b :
        w[k].high < w[j].high \/ (w[k].high = w[j].high /\ k >= j)

\* the state after insert_fake_pivot (unchanged where the source returns False)
insert_fake_pivot(st, w, last_bar, last_price, last_high, new_bar, new_high) ==
    LET gap == new_bar - last_bar - 1
        first_bar_in_gap == last_bar + 1
        last_bar_in_gap == new_bar - 1
        insert_idx == IF new_high THEN idxmin_low(w, first_bar_in_gap, last_bar_in_gap)
                                  ELSE idxmax_high(w, first_bar_in_gap, last_bar_in_gap)
        insert_price == IF new_high THEN w[insert_idx].low ELSE w[insert_idx].high
    IN  IF last_high # new_high THEN st
        ELSE IF gap <= 0 THEN st
        ELSE IF gap > 3 THEN st
        ELSE IF insert_idx > last_bar /\ insert_idx < new_bar
             THEN store_pivot(st, insert_idx, insert_price, ~new_high)
             ELSE st

NoPattern ==
    [up |-> FALSE, down |-> FALSE, group |-> NoGroup, p5 |-> None, p6 |-> None,
     b8 |-> None, p2 |-> None]

\* df.loc[b] raises KeyError for a bar the dataframe does not hold
HasBar(w, b) == b \in 1..Len(w)

Max(S) == CHOOSE x \in S : \A y \in S : y <= x
Min(S) == CHOOSE x \in S : \A y \in S : y >= x

\* the checks of check_eight_pattern on the eight pivots P[1] (oldest) ..
\* P[8] (newest)
eight_pattern(w, P) ==
    LET p1 == P[1].price   p2 == P[2].price   p3 == P[3].price   p4 == P[4].price
        p5 == P[5].price   p6 == P[6].price   p7 == P[7].price   p8 == P[8].price
        up_struct == /\ ~P[1].is_high /\ P[2].is_high /\ ~P[3].is_high /\ P[4].is_high
                     /\ ~P[5].is_high /\ P[6].is_high /\ ~P[7].is_high /\ P[8].is_high
        down_struct == /\ P[1].is_high /\ ~P[2].is_high /\ P[3].is_high /\ ~P[4].is_high
                       /\ P[5].is_high /\ ~P[6].is_high /\ P[7].is_high /\ ~P[8].is_high
        retest_known == HasBar(w, P[7].bar) /\ HasBar(w, P[4].bar)
        touch_retest == \/ up_struct /\ w[P[7].bar].low < w[P[4].bar].high
                        \/ down_struct /\ w[P[7].bar].high > w[P[4].bar].low
        all_prices == {P[k].price : k \in 1..8}
        is_highest8 == p8 = Max(all_prices)
        is_lowest8 == p8 = Min(all_prices)
        g1_up_order == (p2 < p4 /\ p4 < p6 /\ p6 < p8) /\ (p3 < p5 /\ p5 < p7)
        g1_down_order == (p3 > p5 /\ p5 > p7) /\ (p2 > p4 /\ p4 > p6 /\ p6 > p8)
        g2_up_order == (p3 < p7 /\ p7 < p5) /\ (p2 < p6 /\ p6 < p4 /\ p4 < p8) /\ p2 < p5
        g2_down_order == (p3 > p7 /\ p7 > p5) /\ (p2 > p6 /\ p6 > p4 /\ p4 > p8) /\ p2 > p5
        g3_up_order == (p3 < p5 /\ p5 < p7) /\ (p2 < p6 /\ p6 < p4 /\ p4 < p8) /\ p2 < p5
        g3_down_order == (p3 > p5 /\ p5 > p7) /\ (p2 > p6 /\ p6 > p4 /\ p4 > p8) /\ p2 > p5
        breakout_known == HasBar(w, P[5].bar) /\ HasBar(w, P[2].bar)
        up_breakout == breakout_known /\ w[P[5].bar].low > w[P[2].bar].high
        down_breakout == breakout_known /\ w[P[5].bar].high < w[P[2].bar].low
    IN  IF ~(up_struct \/ down_struct) THEN NoPattern
        ELSE IF ~retest_known THEN NoPattern
        ELSE IF ~touch_retest THEN NoPattern
        ELSE IF up_struct /\ (g1_up_order \/ g2_up_order \/ g3_up_order)
                /\ is_highest8 /\ up_breakout
             THEN [up |-> TRUE, down |-> FALSE,
                   group |-> IF g1_up_order THEN "G1"
                             ELSE IF g2_up_order THEN "G2" ELSE "G3",
                   p5 |-> p5, p6 |-> p6, b8 |-> P[8].bar, p2 |-> p2]
        ELSE IF down_struct /\ (g1_down_order \/ g2_down_order \/ g3_down_order)
                /\ is_lowest8 /\ down_breakout
             THEN [up |-> FALSE, down |-> TRUE,
                   group |-> IF g1_down_order THEN "G1"
                             ELSE IF g2_down_order THEN "G2" ELSE "G3",
                   p5 |-> p5, p6 |-> p6, b8 |-> P[8].bar, p2 |-> p2]
        ELSE NoPattern

check_eight_pattern(st, w, pivot_offset) ==
    IF pivot_count(st) < 8 + pivot_offset THEN NoPattern
    ELSE Only({eight_pattern(w, P) :
                 P \in {[k \in 1..8 |-> get_pivot_from_end(st, 8 - k + pivot_offset)]}})

\* a loop body that stores the detected pivot before the synthetic one
process_pivot_stores_fake_last(st, w, pv) ==
    LET last == get_pivot_from_end(st, 0)
        st1 == store_pivot(st, pv.idx, pv.price, pv.is_high)
    IN  IF pivot_count(st) > 0
        THEN insert_fake_pivot(st1, w, last.bar, last.price, last.is_high,
                               pv.idx, pv.is_high)
        ELSE st1

\* one pass of the loop of rebuild_pivots: the fake pivot where one is due,
\* then the detected pivot pv
process_pivot(st, w, pv) ==
    LET last == get_pivot_from_end(st, 0)
        st1 == IF pivot_count(st) > 0
               THEN insert_fake_pivot(st, w, last.bar, last.price, last.is_high,
                                      pv.idx, pv.is_high)
               ELSE st
    IN  store_pivot(st1, pv.idx, pv.price, pv.is_high)

\* the loop of rebuild_pivots over the detected pivots k, k+1, ...
RECURSIVE process_pivots(_, _, _, _)
process_pivots(st, w, pivots, k) ==
    IF k > Len(pivots) THEN st
    ELSE Only({process_pivots(st1, w, pivots, k + 1) :
                 st1 \in {process_pivot(st, w, pivots[k])}})

\* the state with the results of a matched pattern recorded
record_pattern(st, pattern_result) ==
    IF pattern_result.up \/ pattern_result.down
    THEN [st EXCEPT !.last_eight_up = pattern_result.up,
                    !.last_eight_down = pattern_result.down,
                    !.pattern_group = pattern_result.group,
                    !.pivot5 = pattern_result.p5,
                    !.pivot6 = pattern_result.p6,
                    !.last_eight_bar_idx = pattern_result.b8]
    ELSE st

\* the state of the key after rebuild_pivots(timeframe, df)
rebuild_pivots(st, w) ==
    IF Len(w) < left + right + 1 THEN reset(st)
    ELSE Only({ Only({ Only({ record_pattern(st1, pattern_result) :
                      pattern_result \in {check_eight_pattern(st1, w, 0)}}) :
                   st1 \in {process_pivots(reset(st), w, pivots, 1)}}) :
                pivots \in {detect_pivots_with_variants(w)}})

(***************************************************************************)
(* ChochDetector.check_choch and process_new_bar                           *)
(***************************************************************************)
\* the pattern direction and bar in effect: the recorded pattern, or the
\* pattern of the eight pivots before the newest one when the CHoCH bar is
\* the newest pivot, nine pivots exist and that older pattern is valid
effective_last_eight(st, w, prev_idx) ==
    IF prev_idx = st.last_eight_bar_idx /\ pivot_count(st) >= 9
    THEN Only({
            IF pattern_result.up \/ pattern_result.down
            THEN [up |-> pattern_result.up, down |-> pattern_result.down,
                  bar_idx |-> pattern_result.b8]
            ELSE [up |-> st.last_eight_up, down |-> st.last_eight_down,
                  bar_idx |-> st.last_eight_bar_idx] :
            pattern_result \in {check_eight_pattern(st, w, 1)}})
    ELSE [up |-> st.last_eight_up, down |-> st.last_eight_down,
          bar_idx |-> st.last_eight_bar_idx]

\* G1: (678_ok and 456_ok) or 45678_ok
volume_condition_g1(vol4, vol5, vol6, vol7, vol8, vol_choch) ==
    LET max_678 == Max({vol6, vol7, vol8})
        vol_678_ok == vol8 = max_678 \/ vol6 = max_678 \/ vol_choch = max_678
        max_456 == Max({vol4, vol5, vol6})
        vol_456_ok == vol4 = max_456 \/ vol6 = max_456
        max_45678 == Max({vol4, vol5, vol6, vol7, vol8})
        vol_45678_ok == vol8 = max_45678 \/ vol_choch = max_45678
    IN  (vol_678_ok /\ vol_456_ok) \/ vol_45678_ok

\* G2 and G3
volume_condition_g23(vol4, vol5, vol6, vol_choch) ==
    LET max_456 == Max({vol4, vol5, vol6})
    IN  vol4 = max_456 \/ vol5 = max_456 \/ vol_choch >= max_456

NoConfirm == [confirm_up |-> FALSE, confirm_down |-> FALSE]

\* confirm_up / confirm_down of check_choch for the pivots P[1..8], the
\* pattern in effect and the three candles
choch_conditions(w, st, current_idx, P, effective) ==
    LET current == w[current_idx]
        prev == w[current_idx - 1]
        pre_prev == w[current_idx - 2]
        p2 == P[2].price
        choch_up_bar == /\ prev.low > pre_prev.low
                        /\ prev.close > pre_prev.high
                        /\ prev.close > st.pivot6
                        /\ prev.close < p2
        choch_down_bar == /\ prev.high < pre_prev.high
                          /\ prev.close < pre_prev.low
                          /\ prev.close < st.pivot6
                          /\ prev.close > p2
        is_after_eight == current_idx > effective.bar_idx
        base_up == /\ is_after_eight /\ effective.down /\ choch_up_bar
                   /\ current.close > pre_prev.high
        base_down == /\ is_after_eight /\ effective.up /\ choch_down_bar
                     /\ current.close < pre_prev.low
        ref_pivot == IF st.pattern_group = "G2" THEN P[7].price ELSE P[5].price
        volume_condition ==
            IF st.pattern_group = "G1"
            THEN volume_condition_g1(w[P[4].bar].volume, w[P[5].bar].volume,
                                     w[P[6].bar].volume, w[P[7].bar].volume,
                                     w[P[8].bar].volume, prev.volume)
            ELSE volume_condition_g23(w[P[4].bar].volume, w[P[5].bar].volume,
                                      w[P[6].bar].volume, prev.volume)
    IN  IF ~is_after_eight THEN NoConfirm
        ELSE [confirm_up |-> /\ base_up /\ st.pattern_group # NoGroup
                             /\ current.close <= ref_pivot /\ volume_condition,
              confirm_down |-> /\ base_down /\ st.pattern_group # NoGroup
                               /\ current.close >= ref_pivot /\ volume_condition]

\* the window with an empty candle at every bar of the pivots 4..8 that it
\* does not hold
Padded(w, P) ==
    [i \in {P[k].bar : k \in 4..8} \cup (1..Len(w)) |->
        IF i \in 1..Len(w) THEN w[i] ELSE Bar(0, 0, 0, 0)]

\* a confirmer that reads the volume of a pivot bar missing from the window
\* as 0 and carries on
choch_confirm_missing_as_zero(w, st, current_idx) ==
    IF pivot_count(st) < 8 THEN NoConfirm
    ELSE IF st.last_eight_bar_idx = None THEN NoConfirm
    ELSE IF ~(current_idx > st.last_eight_bar_idx) THEN NoConfirm
    ELSE IF ~HasBar(w, current_idx) THEN NoConfirm
    ELSE IF current_idx < 3 THEN NoConfirm
    ELSE Only({
         Only({ choch_conditions(Padded(w, P), st, current_idx, P, effective) :
                effective \in {effective_last_eight(st, w, current_idx - 1)}}) :
         P \in {[k \in 1..8 |-> get_pivot_from_end(st, 8 - k)]}})

\* a confirmer that looks at the three candles only, whatever pattern the
\* rebuild recorded
choch_confirm_candles_only(w, st, current_idx) ==
    IF current_idx < 3 \/ ~HasBar(w, current_idx) THEN NoConfirm
    ELSE [confirm_up |-> /\ w[current_idx - 1].close > w[current_idx - 2].high
                         /\ w[current_idx].close > w[current_idx - 2].high,
          confirm_down |-> /\ w[current_idx - 1].close < w[current_idx - 2].low
                           /\ w[current_idx].close < w[current_idx - 2].low]

\* confirm_up / confirm_down of check_choch, everything before the lock test
choch_confirm(w, st, current_idx) ==
    IF pivot_count(st) < 8 THEN NoConfirm
    ELSE IF st.last_eight_bar_idx = None THEN NoConfirm
    ELSE IF ~(current_idx > st.last_eight_bar_idx) THEN NoConfirm
    ELSE IF ~HasBar(w, current_idx) THEN NoConfirm
    ELSE IF current_idx < 3 THEN NoConfirm
    ELSE Only({
         IF \E k \in 4..8 : ~HasBar(w, P[k].bar) THEN NoConfirm
         ELSE Only({ choch_conditions(w, st, current_idx, P, effective) :
                     effective \in {effective_last_eight(st, w, current_idx - 1)}}) :
         P \in {[k \in 1..8 |-> get_pivot_from_end(st, 8 - k)]}})

\* a confirmer that fires whether or not the state is locked
check_choch_ignores_lock(w, st, current_idx) ==
    Only({
        IF c.confirm_up \/ c.confirm_down
        THEN [fire_up |-> c.confirm_up, fire_down |-> c.confirm_down,
              state |-> [st EXCEPT !.choch_locked = TRUE,
                                   !.choch_bar_idx = current_idx - 1,
                                   !.choch_price = w[current_idx - 1].close]]
        ELSE [fire_up |-> FALSE, fire_down |-> FALSE, state |-> st] :
        c \in {choch_confirm(w, st, current_idx)}})

\* a confirmer that sets both fire flags as soon as one direction confirms
check_choch_fires_both(w, st, current_idx) ==
    Only({
        IF ~st.choch_locked /\ (c.confirm_up \/ c.confirm_down)
        THEN [fire_up |-> c.confirm_up \/ c.confirm_down,
              fire_down |-> c.confirm_up \/ c.confirm_down,
              state |-> [st EXCEPT !.choch_locked = TRUE,
                                   !.choch_bar_idx = current_idx - 1,
                                   !.choch_price = w[current_idx - 1].close]]
        ELSE [fire_up |-> FALSE, fire_down |-> FALSE, state |-> st] :
        c \in {choch_confirm(w, st, current_idx)}})

\* (fire_choch_up, fire_choch_down) and the state check_choch leaves
check_choch(w, st, current_idx) ==
    Only({
        IF ~st.choch_locked /\ (c.confirm_up \/ c.confirm_down)
        THEN [fire_up |-> c.confirm_up, fire_down |-> c.confirm_down,
              state |-> [st EXCEPT !.choch_locked = TRUE,
                                   !.choch_bar_idx = current_idx - 1,
                                   !.choch_price = w[current_idx - 1].close]]
        ELSE [fire_up |-> FALSE, fire_down |-> FALSE, state |-> st] :
        c \in {choch_confirm(w, st, current_idx)}})

\* the dict process_new_bar starts from; a key the source leaves out
\* (pattern_group when nothing fires) reads NoGroup
NoSignal ==
    [choch_up |-> FALSE, choch_down |-> FALSE, signal_type |-> "None",
     direction |-> "None", pattern_group |-> NoGroup, price |-> None,
     timestamp |-> None]

\* a process_new_bar that writes the two fire flags into the wrong keys
process_new_bar_swaps_flags(st, w) ==
    IF Len(w) < 3 THEN [result |-> NoSignal, state |-> st]
    ELSE Only({
          IF r.fire_up \/ r.fire_down
          THEN [result |-> [choch_up |-> r.fire_down, choch_down |-> r.fire_up,
                            signal_type |-> IF r.fire_down THEN "CHoCH Up" ELSE "CHoCH Down",
                            direction |-> IF r.fire_down THEN "Long" ELSE "Short",
                            pattern_group |-> r.state.pattern_group,
                            price |-> r.state.choch_price,
                            timestamp |-> Len(w)],
                state |-> r.state]
          ELSE [result |-> NoSignal, state |-> r.state] :
          r \in {check_choch(w, st, Len(w))}})

\* the returned dict and the state process_new_bar leaves
process_new_bar(st, w) ==
    IF Len(w) < 3 THEN [result |-> NoSignal, state |-> st]
    ELSE Only({
          IF r.fire_up \/ r.fire_down
          THEN [result |-> [choch_up |-> r.fire_up, choch_down |-> r.fire_down,
                            signal_type |-> IF r.fire_up THEN "CHoCH Up" ELSE "CHoCH Down",
                            direction |-> IF r.fire_up THEN "Long" ELSE "Short",
                            pattern_group |-> r.state.pattern_group,
                            price |-> r.state.choch_price,
                            timestamp |-> Len(w)],
                state |-> r.state]
          ELSE [result |-> NoSignal, state |-> r.state] :
          r \in {check_choch(w, st, Len(w))}})

(***************************************************************************)
(* Specification SpecDet: one (symbol, timeframe) key of the detector fed  *)
(* by the scan loop.  market is the candle series the exchange delivers,   *)
(* the first `closed` candles of it have closed.  A scan fetches the       *)
(* closed candles, rebuilds the pivots and calls the confirmer; the        *)
(* confirmer may also be called again without a rebuild.                   *)
(***************************************************************************)
Unseen == 2
MaxFired == 2

\* pivot prices p1..p8 of an up-structure (low, high, low, ...): one shape
\* per pattern group, one whose p5 does not break out over p2, and one whose
\* p7 does not retest p4
PatternShapes ==
    { <<95, 102, 98, 106, 103, 110, 105, 115>>,
      <<95, 100, 97, 112, 106, 110, 103, 118>>,
      <<95, 100, 97, 112, 103, 110, 106, 118>>,
      <<95, 102, 98, 106, 101, 110, 105, 115>>,
      <<95, 102, 98, 106, 103, 112, 108, 118>> }

\* the candle whose low (odd k) or high (even k) is the pivot price p[k]
ZigzagBar(p, k, v) ==
    IF k % 2 = 1 THEN Bar(p[k] + 1, p[k], p[k], v) ELSE Bar(p[k], p[k] - 1, p[k], v)

\* the candles before p1: one falling candle, or a candle and a pivot high
LeadIn(p, lead) ==
    IF lead THEN <<Bar(p[1] + 3, p[1] + 1, p[1] + 2, 1), Bar(p[1] + 5, p[1] + 4, p[1] + 4, 1)>>
            ELSE <<Bar(p[1] + 4, p[1] + 2, p[1] + 3, 1)>>

\* pre-CHoCH candle, CHoCH candle closing at cc, confirmation candle closing
\* at fc with its low under the CHoCH low or not
ChochTail(cc, fc, under, loud) ==
    << Bar(113, 109, 110, 1),
       Bar(112, cc - 1, cc, IF loud = 9 THEN 2 ELSE 1),
       Bar(fc + 1, IF under THEN Min2(cc - 2, fc) ELSE Min2(cc - 1, fc), fc, 1) >>

\* the same candle with prices reflected, which turns an up-structure into a
\* down-structure
Mirror(b) == Bar(220 - b.low, 220 - b.high, 220 - b.close, b.volume)

\* loud names the candle with the double volume: pivot 4..8, the CHoCH
\* candle (9) or none (0)
ScenarioMarket(p, mirror, lead, cc, fc, under, loud) ==
    LET up == LeadIn(p, lead)
              \o [k \in 1..8 |-> ZigzagBar(p, k, IF loud = k THEN 2 ELSE 1)]
              \o ChochTail(cc, fc, under, loud)
    IN  IF mirror THEN [i \in 1..Len(up) |-> Mirror(up[i])] ELSE up

ScenarioMarkets ==
    { ScenarioMarket(p, mirror, lead, cc, fc, under, loud) :
        p \in PatternShapes, mirror \in BOOLEAN, lead \in BOOLEAN,
        cc \in {108, 109, 99}, fc \in {107, 102, 109}, under \in BOOLEAN,
        loud \in {0, 4, 5, 6, 7, 8, 9} }

\* the scenario with the candle of pivot 8 reaching from just beyond pivot 7
\* to its pivot price: a pivot-8 candle with a long wick
WickMarket(p, mirror, fc) ==
    LET base == ScenarioMarket(p, FALSE, FALSE, 108, fc, TRUE, 0)
        tall == [base EXCEPT ![9] = Bar(p[8], p[7] + 1, p[8], 1)]
    IN  IF mirror THEN [i \in 1..Len(tall) |-> Mirror(tall[i])] ELSE tall

WickMarkets ==
    { WickMarket(p, mirror, fc) :
        p \in PatternShapes, mirror \in BOOLEAN, fc \in {107, 102} }

InitDet ==
    /\ market \in ScenarioMarkets \cup WickMarkets
    /\ closed = Max2(0, Len(market) - Unseen)
    /\ df = <<>>
    /\ state = TimeframeState
    /\ result = NoSignal
    /\ det_op = "init" /\ fired = 0 /\ signals = 0
    /\ IdleFn /\ IdleClock /\ IdleLoop /\ IdleApi /\ IdleBus
    /\ IdleAgg /\ IdleScan /\ IdleHist /\ IdlePort

\* fetch_historical: the closed candles
Window == SubSeq(market, 1, closed)

\* a candle of the series closes
CandleClose ==
    /\ closed < Len(market)
    /\ closed' = closed + 1
    /\ det_op' = "candle_close"
    /\ UNCHANGED <<market, df, state, result, fired, signals>>
    /\ UNCHANGED <<fnVars, clockVars, loopVars, apiVars, busVars,
                   aggVars, scanVars, histVars, portVars>>

\* monitor_loop fetches the window and rebuilds the pivots of the key
RebuildPivots ==
    /\ \E w \in {Window} :
         /\ df' = w
         /\ state' = rebuild_pivots(state, w)
    /\ det_op' = "rebuild_pivots"
    /\ fired' = 0
    /\ UNCHANGED <<market, closed, result, signals>>
    /\ UNCHANGED <<fnVars, clockVars, loopVars, apiVars, busVars,
                   aggVars, scanVars, histVars, portVars>>

Fires(r) == r.choch_up \/ r.choch_down

\* on_new_data calls the confirmer, on the window just rebuilt over or on
\* the closed candles as they are now
ProcessNewBar ==
    /\ \E w \in {df, Window} :
         \E r \in {process_new_bar(state, w)} :
             LET n == IF Fires(r.result) THEN 1 ELSE 0
             IN  /\ df' = w
                 /\ state' = r.state
                 /\ result' = r.result
                 /\ fired' = Min2(fired + n, MaxFired)
                 /\ signals' = Min2(signals + n, MaxFired)
    /\ det_op' = "process_new_bar"
    /\ UNCHANGED <<market, closed>>
    /\ UNCHANGED <<fnVars, clockVars, loopVars, apiVars, busVars,
                   aggVars, scanVars, histVars, portVars>>

NextDet == CandleClose \/ RebuildPivots \/ ProcessNewBar

SpecDet == InitDet /\ [][NextDet]_vars

\* C2 (CHoCH lock idempotence): once a signal has fired for the state and
\* locked it, every later confirmer call on that state with no rebuild in
\* between returns no signal and leaves the state locked.
C2_LockIdempotence ==
    [][(det_op' = "process_new_bar" /\ state.choch_locked)
          => (~Fires(result') /\ state'.choch_locked)]_vars

\* a confirmer call on a locked state whose window still shows the pattern
\* and the confirmation returned no signal
C2_Witness ==
    /\ det_op = "process_new_bar" /\ state.choch_locked /\ ~Fires(result)
    /\ fired = 1
    /\ LET c == choch_confirm(df, state, Len(df)) IN c.confirm_up \/ c.confirm_down

\* C4 (CHoCH pattern gating): the confirmer returns an up signal only when
\* the pattern in effect (the recorded one, or the offset-1 pattern when the
\* CHoCH bar is the newest pivot and nine pivots exist) is a down-pattern,
\* and a down signal only when it is an up-pattern.
C4_PatternGating ==
    det_op = "process_new_bar" =>
        LET e == effective_last_eight(state, df, Len(df) - 1)
        IN  /\ result.choch_up => (e.down /\ ~e.up)
            /\ result.choch_down => (e.up /\ ~e.down)

\* an up signal was returned against a recorded down-pattern
C4_Witness ==
    /\ det_op = "process_new_bar" /\ result.choch_up /\ result.direction = "Long"
    /\ state.last_eight_down /\ ~state.last_eight_up

\* C10 (lock and reset): a rebuild clears the lock; a confirmer call right
\* after a rebuild over a window that shows the pattern and the confirmation
\* fires a signal and locks the state; between two rebuilds at most one
\* signal fires.
C10_LockAndReset ==
    [][/\ det_op' = "rebuild_pivots" => ~state'.choch_locked
       /\ (det_op = "rebuild_pivots" /\ det_op' = "process_new_bar"
             /\ LET c == choch_confirm(df', state, Len(df'))
                IN  c.confirm_up \/ c.confirm_down)
            => (Fires(result') /\ state'.choch_locked /\ fired' = 1)
       /\ fired' <= 1]_vars

\* a second signal fired after a rebuild of the locked state, and a further
\* confirmer call without a rebuild returned none
C10_Witness ==
    /\ signals >= 2 /\ fired = 1 /\ state.choch_locked
    /\ det_op = "process_new_bar" /\ ~Fires(result)

\* the candle of the pivot-8 bar of the pattern in effect for the last call
P8Candle == df[effective_last_eight(state, df, Len(df) - 1).bar_idx]

\* C34 (pivot-8 body restriction): a signal is returned only if the
\* confirmation candle clears the pivot-8 candle: for an up signal its close
\* is above the high of the pivot-8 candle and its low above the body of that
\* candle, for a down signal its close is below the low of the pivot-8 candle
\* and its high below the body.  The window carries an open column the
\* confirmer does not read; the body is taken for whichever open within the
\* candle's range the pivot-8 candle had.
C34_BodyRestriction ==
    (det_op = "process_new_bar" /\ Fires(result)) =>
        LET c_curr == df[Len(df)]
        IN  \E open_p8 \in P8Candle.low..P8Candle.high :
              /\ result.choch_up =>
                    /\ c_curr.close > P8Candle.high
                    /\ c_curr.low > Max2(open_p8, P8Candle.close)
              /\ result.choch_down =>
                    /\ c_curr.close < P8Candle.low
                    /\ c_curr.high < Min2(open_p8, P8Candle.close)

\* detector states around st: the pivots and the pattern bar of st, unlocked,
\* with every combination of the two direction flags, every pattern group
\* and several values of pivot6
StatesAround(st) ==
    { [st EXCEPT !.last_eight_up = u, !.last_eight_down = d,
                 !.pattern_group = g, !.pivot6 = p6, !.choch_locked = FALSE] :
        u \in BOOLEAN, d \in BOOLEAN, g \in {"G1", "G2", "G3"},
        p6 \in {st.pivot6, 105, 110} }

\* C39 (one direction per call): over the window of the last call and every
\* detector state around the one it left, both direction flags set included,
\* check_choch does not return an up signal and a down signal together.
C39_NeverBothDirections ==
    Len(df) >= 3 =>
        \A st \in StatesAround(state) :
            \A r \in {check_choch(df, st, Len(df))} : ~(r.fire_up /\ r.fire_down)

\* a signal fired, and with both direction flags set the confirmer returns
\* that one direction
C39_Witness ==
    /\ det_op = "process_new_bar" /\ Fires(result)
    /\ \E r \in {check_choch(df, [state EXCEPT !.last_eight_up = TRUE,
                                                !.last_eight_down = TRUE,
                                                !.choch_locked = FALSE], Len(df))} :
          /\ r.fire_up = result.choch_up /\ r.fire_down = result.choch_down
          /\ r.fire_up # r.fire_down

(***************************************************************************)
(* Specification SpecScan: the scan of one (symbol, timeframe) key by the  *)
(* two entry points.  main.py scans a key once per candle close and alerts *)
(* from on_new_data; run_trading_bot.py scans in a loop and publishes on   *)
(* the signal bus, awaiting the subscribers before it goes on.             *)
(***************************************************************************)
\* a candle that goes on falling after the confirmation candle
FallingBar(xc) == Bar(xc + 1, xc - 1, xc, 1)

\* a scenario market followed by one more candle closing at xc
ScanMarket(p, mirror, lead, cc, fc, xc) ==
    ScenarioMarket(p, mirror, lead, cc, fc, TRUE, 0)
        \o << IF mirror THEN Mirror(FallingBar(xc)) ELSE FallingBar(xc) >>

ScanMarkets ==
    { ScanMarket(p, mirror, lead, cc, fc, xc) :
        p \in PatternShapes, mirror \in BOOLEAN, lead \in BOOLEAN,
        cc \in {108, 109}, fc \in {105, 107}, xc \in {104, 111} }

InitScan ==
    /\ program \in {"main", "run_trading_bot"}
    /\ market \in ScanMarkets
    /\ closed = Max2(0, Len(market) - Unseen)
    /\ df = <<>>
    /\ state = TimeframeState
    /\ result = NoSignal
    /\ det_op = "init" /\ fired = 0 /\ signals = 0
    /\ telegram_alerts = 0 /\ broadcasts = 0
    /\ subscribers = IF program = "run_trading_bot"
                     THEN <<"on_signal", "telegram_alert_handler">>
                     ELSE <<>>
    /\ signal_count = 0 /\ bus_pc = "idle" /\ dispatched = <<>>
    /\ task = [s \in SubscriberIds |-> "none"]
    /\ outcome = [s \in SubscriberIds |-> "none"]
    /\ observed = [s \in SubscriberIds |-> <<>>]
    /\ completed = [s \in SubscriberIds |-> <<>>]
    /\ success_count = 0 /\ error_count = 0
    /\ IdleFn /\ IdleClock /\ IdleLoop /\ IdleApi /\ IdleAgg /\ IdleHist /\ IdlePort

\* the body of a scan of the key over the fetched window w: nothing for an
\* empty window, else rebuild_pivots followed by process_new_bar
scan(st, w) ==
    IF Len(w) = 0 THEN [result |-> NoSignal, state |-> st]
    ELSE Only({process_new_bar(st1, w) : st1 \in {rebuild_pivots(st, w)}})

\* monitor_loop of main.py on a key whose candle closed: fetch, rebuild,
\* on_new_data; a signal is sent to Telegram and broadcast to the web clients
ScanMain ==
    /\ program = "main"
    /\ det_op \in {"init", "candle_close"}
    /\ signals < MaxFired
    /\ \E w \in {Window} :
         \E r \in {scan(state, w)} :
             LET n == IF Fires(r.result) THEN 1 ELSE 0
             IN  /\ df' = w
                 /\ state' = r.state
                 /\ result' = r.result
                 /\ fired' = n
                 /\ signals' = signals + n
                 /\ telegram_alerts' = telegram_alerts + n
                 /\ broadcasts' = broadcasts + n
    /\ det_op' = "scanned"
    /\ UNCHANGED <<market, closed, program>>
    /\ UNCHANGED <<fnVars, clockVars, loopVars, apiVars, busVars, aggVars, histVars, portVars>>

\* one pass of the scan loop of run_trading_bot.py over the key: fetch,
\* rebuild, process_new_bar; a signal is converted and published, and the
\* loop goes on when publish has returned
ScanBot ==
    /\ program = "run_trading_bot"
    /\ bus_pc \in {"idle", "returned"}
    /\ signals < MaxFired
    /\ \E w \in {Window} :
         \E r \in {scan(state, w)} :
             LET n == IF Fires(r.result) THEN 1 ELSE 0
             IN  /\ df' = w
                 /\ state' = r.state
                 /\ result' = r.result
                 /\ fired' = n
                 /\ signals' = signals + n
                 /\ IF Fires(r.result) /\ pivot_count(r.state) >= 8
                    THEN /\ signal_count' = signal_count + 1
                         /\ bus_pc' = IF Len(subscribers) = 0 THEN "returned" ELSE "gather"
                         /\ dispatched' = subscribers
                         /\ task' = [s \in SubscriberIds |->
                                        IF InSeq(s, subscribers) THEN "created" ELSE "none"]
                         /\ outcome' = [s \in SubscriberIds |-> "none"]
                         /\ success_count' = 0 /\ error_count' = 0
                    ELSE UNCHANGED <<signal_count, bus_pc, dispatched, task, outcome,
                                     success_count, error_count>>
    /\ det_op' = "scanned"
    /\ UNCHANGED <<market, closed, program, telegram_alerts, broadcasts,
                   subscribers, observed, completed>>
    /\ UNCHANGED <<fnVars, clockVars, loopVars, apiVars, aggVars, histVars, portVars>>

NextScan ==
    \/ CandleClose \/ ScanMain \/ ScanBot \/ TaskStart \/ TaskFinish \/ GatherReturn

SpecScan == InitScan /\ [][NextScan]_vars

\* the two states hold the same recognised pattern: same direction, same
\* eighth-pivot bar and the same last eight pivots
SamePattern(a, b) ==
    /\ a.last_eight_bar_idx # None
    /\ a.last_eight_bar_idx = b.last_eight_bar_idx
    /\ a.last_eight_up = b.last_eight_up /\ a.last_eight_down = b.last_eight_down
    /\ pivot_count(a) >= 8 /\ pivot_count(b) >= 8
    /\ \A k \in 0..7 : get_pivot_from_end(a, k) = get_pivot_from_end(b, k)

\* C11 (one signal per recognised pattern): a scan of a key that is locked
\* by the signal of an earlier scan, and whose rebuild recognises the same
\* pattern again, emits no signal.
C11_OneSignalPerPattern ==
    [][(det_op' = "scanned" /\ state.choch_locked /\ SamePattern(state, state'))
          => ~Fires(result')]_vars

\* C16 (every signal is published): the signals published on the bus are
\* the signals the confirmer produced, and once publish has returned every
\* subscriber was invoked with each of them, in order.
C16_EverySignalPublished ==
    /\ signal_count = signals
    /\ bus_pc \in {"idle", "returned"} =>
         \A s \in SubscriberIds : observed[s] = [i \in 1..signals |-> i]

(***************************************************************************)
(* Specification SpecWin: the confirmer called on any window of the candle *)
(* series, with the state of the key as a rebuild over the closed candles  *)
(* left it.  A window that starts after the oldest candle does not hold    *)
(* the bars of the older pivots.  The index labels of the source are       *)
(* timestamps; here the label of a bar is its position in the series, and  *)
(* a window that dropped d candles is the sequence of the later ones, the  *)
(* labels of the state moved down by d for the call.                       *)
(***************************************************************************)
\* the scenario markets of one CHoCH tail, and the first seven candles of
\* each, which hold fewer than eight pivots
WinMarkets ==
    LET full == { ScenarioMarket(p, mirror, FALSE, 108, 107, TRUE, 0) :
                    p \in PatternShapes, mirror \in BOOLEAN }
    IN  full \cup { SubSeq(m, 1, 7) : m \in full }

InitWin ==
    /\ market \in WinMarkets
    /\ closed = Max2(0, Len(market) - Unseen)
    /\ df = <<>>
    /\ state = TimeframeState
    /\ result = NoSignal
    /\ det_op = "init" /\ fired = 0 /\ signals = 0
    /\ IdleFn /\ IdleClock /\ IdleLoop /\ IdleApi /\ IdleBus
    /\ IdleAgg /\ IdleScan /\ IdleHist /\ IdlePort

\* the label b in a window that dropped the d oldest candles: the bars the
\* window holds are 1..Len, the dropped ones come before them and are no
\* label of the window
ShiftLabel(b, d) ==
    IF b = None THEN None ELSE IF b > d THEN b - d ELSE b - d - 2

UnshiftLabel(b, d) ==
    IF b = None THEN None ELSE IF b >= 1 THEN b + d ELSE b + d + 2

ShiftState(st, d) ==
    [st EXCEPT !.bars = [i \in DOMAIN st.bars |-> ShiftLabel(st.bars[i], d)],
               !.last_eight_bar_idx = ShiftLabel(@, d),
               !.choch_bar_idx = ShiftLabel(@, d)]

UnshiftState(st, d) ==
    [st EXCEPT !.bars = [i \in DOMAIN st.bars |-> UnshiftLabel(st.bars[i], d)],
               !.last_eight_bar_idx = UnshiftLabel(@, d),
               !.choch_bar_idx = UnshiftLabel(@, d)]

\* process_new_bar(key, df) with df any run of closed candles
ConfirmOnWindow ==
    /\ \E a \in 0..closed, b \in 0..closed :
         /\ a <= b
         /\ \E w \in {SubSeq(market, a + 1, b)} :
              \E r \in {process_new_bar(ShiftState(state, a), w)} :
                  LET n == IF Fires(r.result) THEN 1 ELSE 0
                  IN  /\ df' = w
                      /\ df_offset' = a
                      /\ state' = UnshiftState(r.state, a)
                      /\ result' = r.result
                      /\ fired' = Min2(fired + n, MaxFired)
                      /\ signals' = Min2(signals + n, MaxFired)
    /\ det_op' = "process_new_bar"
    /\ UNCHANGED <<market, closed, failed_closes, ok_closes>>
    /\ UNCHANGED <<fnVars, clockVars, loopVars, apiVars, busVars, aggVars, scanVars,
                   portVars>>

NextWin == CandleClose \/ RebuildPivots \/ ConfirmOnWindow

SpecWin == InitWin /\ [][NextWin]_vars

\* the bar label b is an index of the window df
InWindow(b) == b > df_offset /\ b <= df_offset + Len(df)

\* the last three candles of df show a CHoCH candle and its confirmation
ThreeCandleMove ==
    /\ Len(df) >= 3
    /\ \/ /\ df[Len(df) - 1].close < df[Len(df) - 2].low
          /\ df[Len(df)].close < df[Len(df) - 2].low
       \/ /\ df[Len(df) - 1].close > df[Len(df) - 2].high
          /\ df[Len(df)].close > df[Len(df) - 2].high

\* C12 (no pattern, no signal): when the state holds no recorded pattern,
\* the confirmer returns no signal, whatever the window.
C12_NoPatternNoSignal ==
    (det_op = "process_new_bar" /\ ~(state.last_eight_up \/ state.last_eight_down))
        => (result = NoSignal /\ ~state.choch_locked)

\* the rebuild stored eight pivots or more and recorded no pattern, and the
\* confirmer returned no signal on a window whose last candles show a CHoCH
\* and its confirmation
C12_Witness ==
    /\ det_op = "process_new_bar" /\ result = NoSignal
    /\ pivot_count(state) >= 8
    /\ ~(state.last_eight_up \/ state.last_eight_down)
    /\ ThreeCandleMove

\* C13 (the confirmer is total): every call returns the no-signal result or
\* a signal; on an empty window, a window of 1 or 2 bars, a state of fewer
\* than 8 pivots, or a window that does not hold the bar of a pivot the
\* confirmer looks up (pivots 4 to 8), it returns the no-signal result.
C13_ConfirmerTotal ==
    det_op = "process_new_bar" =>
        /\ result = NoSignal \/ Fires(result)
        /\ Len(df) < 3 => result = NoSignal
        /\ pivot_count(state) < 8 => result = NoSignal
        /\ (pivot_count(state) >= 8
              /\ \E k \in 0..4 : ~InWindow(get_pivot_from_end(state, k).bar))
             => result = NoSignal

\* a pattern is recorded, the window starts after the bar of pivot 4 and
\* its last candles show a CHoCH and its confirmation after pivot 8; the
\* confirmer returned no signal
C13_Witness ==
    /\ det_op = "process_new_bar" /\ result = NoSignal
    /\ state.last_eight_up \/ state.last_eight_down
    /\ ~state.choch_locked
    /\ pivot_count(state) >= 8
    /\ ~InWindow(get_pivot_from_end(state, 4).bar)
    /\ InWindow(get_pivot_from_end(state, 3).bar)
    /\ df_offset + Len(df) > state.last_eight_bar_idx + 2
    /\ ThreeCandleMove

(***************************************************************************)
(* Specification SpecPivot: rebuild_pivots and the confirmer over every    *)
(* window of at most FlatBars candles drawn from three candle shapes       *)
(***************************************************************************)
FlatBars == 8

FlatShapes == {Bar(1, 1, 1, 1), Bar(2, 1, 2, 1), Bar(2, 2, 2, 1)}

InitPivot ==
    /\ \E n \in 0..FlatBars : market \in [1..n -> FlatShapes]
    /\ closed = Len(market)
    /\ df = <<>>
    /\ state = TimeframeState
    /\ result = NoSignal
    /\ det_op = "init" /\ fired = 0 /\ signals = 0
    /\ IdleFn /\ IdleClock /\ IdleLoop /\ IdleApi /\ IdleBus
    /\ IdleAgg /\ IdleScan /\ IdleHist /\ IdlePort

NextPivot == RebuildPivots \/ ProcessNewBar

SpecPivot == InitPivot /\ [][NextPivot]_vars

\* C5 (pivot alternation): after any rebuild_pivots call, on any input
\* window, no two consecutive stored pivots have the same is_high value.
C5_PivotAlternation ==
    det_op = "rebuild_pivots" =>
        \A i \in 1..(Len(state.highs) - 1) : state.highs[i] # state.highs[i + 1]

\* the stored pivot i was put there by insert_fake_pivot: the pivot detection
\* over the window did not report a pivot of its kind at its bar
IsSynthetic(st, w, i) ==
    ~\E k \in DOMAIN detect_pivots_with_variants(w) :
        LET pv == detect_pivots_with_variants(w)[k]
        IN  pv.idx = st.bars[i] /\ pv.is_high = st.highs[i]

\* C18 (synthetic-pivot containment): after a rebuild every synthetic pivot
\* has a stored pivot before it and one after it, and its bar index is
\* strictly greater than that of the former and strictly less than that of
\* the latter.
C18_SyntheticContainment ==
    det_op = "rebuild_pivots" =>
        \A i \in 1..Len(state.bars) :
            IsSynthetic(state, df, i) =>
                /\ i > 1 /\ i < Len(state.bars)
                /\ state.bars[i - 1] < state.bars[i]
                /\ state.bars[i] < state.bars[i + 1]

\* a rebuild stored a synthetic pivot picked from a gap of several bars
C18_Witness ==
    /\ det_op = "rebuild_pivots"
    /\ \E i \in 2..(Len(state.bars) - 1) :
        /\ IsSynthetic(state, df, i)
        /\ state.bars[i + 1] - state.bars[i - 1] > 2

\* the bars strictly between the stored pivots around the stored pivot i
GapOf(st, i) == (st.bars[i - 1] + 1)..(st.bars[i + 1] - 1)

\* C33 (rebuild determinism): a second rebuild over the window the state was
\* just rebuilt from stores the same pivots: the same bars, prices and types
\* in the same order, and so the same number of them; and every synthetic
\* pivot sits on the earliest bar of its gap that has the extreme price.
C33_RebuildDeterminism ==
    det_op = "rebuild_pivots" =>
        /\ LET again == rebuild_pivots(state, df)
           IN  /\ again.bars = state.bars
               /\ again.prices = state.prices
               /\ again.highs = state.highs
               /\ pivot_count(again) = pivot_count(state)
        /\ \A i \in 2..(Len(state.bars) - 1) :
              IsSynthetic(state, df, i) =>
                  \A k \in GapOf(state, i) :
                      IF state.highs[i]
                      THEN \/ df[k].high < state.prices[i]
                           \/ (df[k].high = state.prices[i] /\ k >= state.bars[i])
                      ELSE \/ df[k].low > state.prices[i]
                           \/ (df[k].low = state.prices[i] /\ k >= state.bars[i])

\* a rebuild stored a synthetic pivot on the first of several bars of its
\* gap that share the extreme price, and a rebuild of that state over the
\* same window leaves it as it is
C33_Witness ==
    /\ det_op = "rebuild_pivots"
    /\ state = rebuild_pivots(state, df)
    /\ \E i \in 2..(Len(state.bars) - 1) :
        /\ IsSynthetic(state, df, i)
        /\ \E k \in GapOf(state, i) :
              /\ k > state.bars[i]
              /\ IF state.highs[i] THEN df[k].high = state.prices[i]
                                   ELSE df[k].low = state.prices[i]

====
